---- MODULE Spec2Model ----
(***************************************************************************)
(* Model of the typed columnar codec of regenesis_storage_bench:           *)
(* ParquetCodec::encode_subset / decode_subset for the five record types   *)
(* (src/src/encoding/parquet_codec.rs), the record types themselves        *)
(* (src/src/serde_types.rs) and the container calls the codec makes        *)
(* (next_row_group, next_column, write_batch, close, get_row_iter).        *)
(*                                                                         *)
(* Representation of values                                                *)
(*   Option<T>      None == <<>>, Some(v) == <<v>>                         *)
(*   byte arrays    sequences of bytes (0..255); Bytes32 has 32 of them     *)
(*   u8, u16        naturals                                               *)
(*   i32            integers in -2^31 .. 2^31-1                            *)
(*   u32            two 16-bit limbs <<hi, lo>>, most significant first    *)
(*   u64            four 16-bit limbs, most significant first              *)
(*   i64            four limbs whose first limb is signed                  *)
(*                  (-32768..32767): the value is                          *)
(*                  l[1]*2^48 + l[2]*2^32 + l[3]*2^16 + l[4]               *)
(***************************************************************************)
EXTENDS Integers, Sequences, FiniteSets, TLC

\* ------------------------------------------------------------------------
\* Bounds of the model
\* ------------------------------------------------------------------------
MaxLen == 3

MaxBatchSize == 3

MaxWrites == 2

MaxSinkWrites == 5

MaxItems == 4

MaxParLen == 2

MaxEntries == 3

MaxExtraReads == 2

MaxExtraBytes == 1

\* ------------------------------------------------------------------------
\* Program constants
\* ------------------------------------------------------------------------
HashLen == 32

Limb == 65536

HalfLimb == 32768

U8Range == 256

\* ------------------------------------------------------------------------
\* Option and byte helpers
\* ------------------------------------------------------------------------
None == <<>>

Some(v) == <<v>>

is_some(o) == Len(o) = 1

is_none(o) == Len(o) = 0

unwrap(o) == o[1]

\* a 32 byte array all of whose bytes are b
B32(b) == [i \in 1..HashLen |-> b]

Min(a, b) == IF a < b THEN a ELSE b

\* ------------------------------------------------------------------------
\* Integer casts (`as`): two's complement reinterpretation
\* ------------------------------------------------------------------------
\* u8 as i32 / u16 as i32: zero extension
U8AsI32(v) == v

\* U16AsI32 going through u8 first (`el as u8 as i32`)
U16AsI32ViaU8(v) == v % U8Range

U16AsI32(v) == v

\* U32AsI32 that saturates (`i32::try_from(*el).unwrap_or(i32::MAX)`)
U32AsI32Saturating(u) ==
    IF u[1] >= HalfLimb THEN (HalfLimb - 1) * Limb + (Limb - 1) ELSE u[1] * Limb + u[2]

\* u32 as i32: same 32 bits, top bit becomes the sign
U32AsI32(u) == (IF u[1] >= HalfLimb THEN u[1] - Limb ELSE u[1]) * Limb + u[2]

\* u64 as i64: same 64 bits, top bit becomes the sign
U64AsI64(u) == <<IF u[1] >= HalfLimb THEN u[1] - Limb ELSE u[1], u[2], u[3], u[4]>>

\* i32 as u8 / as u16 / as u32: keep the low 8 / 16 / 32 bits
I32AsU8(i) == i % U8Range

I32AsU16(i) == i % Limb

I32AsU32(i) == <<(i \div Limb) % Limb, i % Limb>>

\* i64 as u64
I64AsU64(l) == <<l[1] % Limb, l[2], l[3], l[4]>>

\* ------------------------------------------------------------------------
\* Record types (src/src/serde_types.rs) and the batches drawn as inputs
\* ------------------------------------------------------------------------
Kinds == {"CoinConfig", "MessageConfig", "ContractConfig", "ContractState", "ContractBalance"}

U64Max == <<65535, 65535, 65535, 65535>>

U64Zero == <<0, 0, 0, 0>>

CoinConfig(tx_id, output_index, height, tx_idx, maturity, owner, amount, asset_id) ==
    [tx_id |-> tx_id, output_index |-> output_index,
     tx_pointer_block_height |-> height, tx_pointer_tx_idx |-> tx_idx,
     maturity |-> maturity, owner |-> owner, amount |-> amount, asset_id |-> asset_id]

ContractConfig(contract_id, code, salt, tx_id, output_index, height, tx_idx) ==
    [contract_id |-> contract_id, code |-> code, salt |-> salt, tx_id |-> tx_id,
     output_index |-> output_index, tx_pointer_block_height |-> height,
     tx_pointer_tx_idx |-> tx_idx]

MessageConfig(sender, recipient, nonce, amount, data, da_height) ==
    [sender |-> sender, recipient |-> recipient, nonce |-> nonce, amount |-> amount,
     data |-> data, da_height |-> da_height]

ContractState(key, value) == [key |-> key, value |-> value]

ContractBalance(asset_id, amount) == [asset_id |-> asset_id, amount |-> amount]

\* The records a batch is drawn from: every optional field occurs as None and
\* as Some, next to null rows and after them, with the extreme values of its
\* integer type.
Records(kind) ==
    CASE kind = "CoinConfig" ->
           { CoinConfig(Some(B32(1)), Some(255), Some(<<65535, 65535>>), Some(65535),
                        Some(<<32768, 0>>), B32(2), U64Max, B32(3)),
             CoinConfig(None, None, None, None, None, B32(0), U64Zero, B32(255)),
             CoinConfig(None, Some(0), None, Some(1), Some(<<0, 1>>), B32(4),
                        <<32768, 0, 0, 0>>, B32(5)),
             CoinConfig(Some(B32(6)), None, Some(<<32767, 65535>>), None, None, B32(7),
                        <<32767, 65535, 65535, 65535>>, B32(8)) }
      [] kind = "ContractConfig" ->
           { ContractConfig(B32(1), <<1, 2, 3>>, B32(2), Some(B32(3)), Some(255),
                            Some(<<65535, 65535>>), Some(65535)),
             ContractConfig(B32(0), <<>>, B32(255), None, None, None, None),
             ContractConfig(B32(4), B32(9), B32(5), None, Some(1), Some(<<32768, 0>>), None),
             ContractConfig(B32(6), <<0>>, B32(7), Some(B32(8)), None, None, Some(256)) }
      [] kind = "MessageConfig" ->
           { MessageConfig(B32(1), B32(2), B32(3), U64Max, <<>>, <<32768, 0, 0, 0>>),
             MessageConfig(B32(0), B32(0), B32(0), U64Zero, <<7, 8>>, U64Zero),
             MessageConfig(B32(4), B32(5), B32(6), <<0, 0, 1, 0>>, B32(9), U64Max) }
      [] kind = "ContractState" ->
           { ContractState(B32(1), B32(2)), ContractState(B32(0), B32(255)),
             ContractState(B32(2), B32(1)) }
      [] kind = "ContractBalance" ->
           { ContractBalance(B32(1), U64Max), ContractBalance(B32(0), U64Zero),
             ContractBalance(B32(2), <<32768, 0, 0, 1>>) }

RECURSIVE SeqsUpTo(_, _)
\* all sequences over S of length at most n
SeqsUpTo(S, n) ==
    IF n = 0 THEN {<<>>}
    ELSE LET shorter == SeqsUpTo(S, n - 1)
         IN shorter \cup {Append(q, x) : q \in {r \in shorter : Len(r) = n - 1}, x \in S}

\* ------------------------------------------------------------------------
\* Schema descriptors: ParquetSchema::schema() of each record type
\* ------------------------------------------------------------------------
Column(name, physical, length, converted, repetition) ==
    [name |-> name, physical |-> physical, length |-> length,
     converted |-> converted, repetition |-> repetition]

Hash32Column(name, repetition) ==
    Column(name, "FIXED_LEN_BYTE_ARRAY", HashLen, "NONE", repetition)

schema(kind) ==
    CASE kind = "ContractConfig" ->
           [name |-> "ContractConfig",
            fields |-> << Hash32Column("contract_id", "REQUIRED"),
                          Column("code", "BYTE_ARRAY", -1, "NONE", "REQUIRED"),
                          Hash32Column("salt", "REQUIRED"),
                          Hash32Column("tx_id", "OPTIONAL"),
                          Column("output_index", "INT32", -1, "UINT_8", "OPTIONAL"),
                          Column("tx_pointer_block_height", "INT32", -1, "UINT_32", "OPTIONAL"),
                          Column("tx_pointer_tx_idx", "INT32", -1, "UINT_16", "OPTIONAL") >>]
      [] kind = "ContractState" ->
           [name |-> "ContractState",
            fields |-> << Hash32Column("key", "REQUIRED"),
                          Hash32Column("value", "REQUIRED") >>]
      [] kind = "ContractBalance" ->
           [name |-> "ContractBalance",
            fields |-> << Hash32Column("asset_id", "REQUIRED"),
                          Column("amount", "INT64", -1, "UINT_64", "REQUIRED") >>]
      [] kind = "CoinConfig" ->
           [name |-> "CoinConfig",
            fields |-> << Hash32Column("tx_id", "OPTIONAL"),
                          Column("output_index", "INT32", -1, "UINT_8", "OPTIONAL"),
                          Column("tx_pointer_block_height", "INT32", -1, "UINT_32", "OPTIONAL"),
                          Column("tx_pointer_tx_idx", "INT32", -1, "UINT_16", "OPTIONAL"),
                          Column("maturity", "INT32", -1, "UINT_32", "OPTIONAL"),
                          Hash32Column("owner", "REQUIRED"),
                          Column("amount", "INT64", -1, "UINT_64", "REQUIRED"),
                          Hash32Column("asset_id", "REQUIRED") >>]
      [] kind = "MessageConfig" ->
           [name |-> "CoinConfig",
            fields |-> << Hash32Column("sender", "REQUIRED"),
                          Hash32Column("recipient", "REQUIRED"),
                          Hash32Column("nonce", "REQUIRED"),
                          Column("amount", "INT64", -1, "UINT_64", "REQUIRED"),
                          Column("data", "BYTE_ARRAY", -1, "NONE", "REQUIRED"),
                          Column("da_height", "INT64", -1, "UINT_64", "REQUIRED") >>]

\* ------------------------------------------------------------------------
\* Column encoders: the column blocks of each encode_subset, in code order.
\*   field  the record field the closure projects
\*   typed  the type parameter of column.typed::<..>()
\*   def    TRUE when Some(&def_levels) is passed to write_batch
\*   conv   the conversion applied to each projected value
\* ------------------------------------------------------------------------
Enc(field, typed, def, conv) == [field |-> field, typed |-> typed, def |-> def, conv |-> conv]

EncCoinConfig ==
    << Enc("tx_id", "FIXED_LEN_BYTE_ARRAY", TRUE, "to_vec"),
       Enc("output_index", "INT32", TRUE, "u8_as_i32"),
       Enc("tx_pointer_block_height", "INT32", TRUE, "u32_as_i32"),
       Enc("tx_pointer_tx_idx", "INT32", TRUE, "u16_as_i32"),
       Enc("maturity", "INT32", TRUE, "u32_as_i32"),
       Enc("owner", "FIXED_LEN_BYTE_ARRAY", FALSE, "to_vec"),
       Enc("amount", "INT64", FALSE, "u64_as_i64"),
       Enc("asset_id", "FIXED_LEN_BYTE_ARRAY", FALSE, "to_vec") >>

EncMessageConfig ==
    << Enc("sender", "FIXED_LEN_BYTE_ARRAY", FALSE, "to_vec"),
       Enc("recipient", "FIXED_LEN_BYTE_ARRAY", FALSE, "to_vec"),
       Enc("nonce", "FIXED_LEN_BYTE_ARRAY", FALSE, "to_vec"),
       Enc("amount", "INT64", FALSE, "u64_as_i64"),
       Enc("data", "BYTE_ARRAY", FALSE, "to_vec"),
       Enc("da_height", "INT64", FALSE, "u64_as_i64") >>

EncContractState ==
    << Enc("key", "FIXED_LEN_BYTE_ARRAY", FALSE, "to_vec"),
       Enc("value", "FIXED_LEN_BYTE_ARRAY", FALSE, "to_vec") >>

EncContractBalance ==
    << Enc("asset_id", "FIXED_LEN_BYTE_ARRAY", FALSE, "to_vec"),
       Enc("amount", "INT64", FALSE, "u64_as_i64") >>

EncContractConfig ==
    << Enc("contract_id", "FIXED_LEN_BYTE_ARRAY", FALSE, "to_vec"),
       Enc("code", "BYTE_ARRAY", FALSE, "clone"),
       Enc("salt", "FIXED_LEN_BYTE_ARRAY", FALSE, "to_vec"),
       Enc("tx_id", "FIXED_LEN_BYTE_ARRAY", TRUE, "to_vec"),
       Enc("output_index", "INT32", TRUE, "u8_as_i32"),
       Enc("tx_pointer_block_height", "INT32", TRUE, "u32_as_i32"),
       Enc("tx_pointer_tx_idx", "INT32", TRUE, "u16_as_i32") >>

\* EncCols with the Message encoder writing recipient first and sender second
EncColsSenderRecipientSwapped(kind) ==
    CASE kind = "CoinConfig" -> EncCoinConfig
      [] kind = "MessageConfig" ->
           [i \in 1..Len(EncMessageConfig) |->
              IF i = 1 THEN EncMessageConfig[2] ELSE IF i = 2 THEN EncMessageConfig[1]
              ELSE EncMessageConfig[i]]
      [] kind = "ContractState" -> EncContractState
      [] kind = "ContractBalance" -> EncContractBalance
      [] kind = "ContractConfig" -> EncContractConfig

EncCols(kind) ==
    CASE kind = "CoinConfig" -> EncCoinConfig
      [] kind = "MessageConfig" -> EncMessageConfig
      [] kind = "ContractState" -> EncContractState
      [] kind = "ContractBalance" -> EncContractBalance
      [] kind = "ContractConfig" -> EncContractConfig

\* the `.map(..)` closure of a column block applied to one projected value
EncValue(conv, v) ==
    CASE conv = "to_vec" -> v
      [] conv = "clone" -> v
      [] conv = "u8_as_i32" -> U8AsI32(v)
      [] conv = "u16_as_i32" -> U16AsI32(v)
      [] conv = "u32_as_i32" -> U32AsI32(v)
      [] conv = "u64_as_i64" -> U64AsI64(v)

\* EncDefLevels computed over the present values only (one level per value
\* instead of one per row)
EncDefLevelsPresentOnly(ec, chunk) ==
    [r \in 1..Len(SelectSeq(chunk, LAMBDA el : is_some(el[ec.field]))) |-> 1]

\* `chunk.iter().map(|el| el.f.is_some() as i16).collect_vec()`
EncDefLevels(ec, chunk) ==
    [r \in 1..Len(chunk) |-> IF is_some(chunk[r][ec.field]) THEN 1 ELSE 0]

RECURSIVE FilterMapSome(_, _)
\* `chunk.iter().filter_map(|el| el.f)`: the present values, in row order
FilterMapSome(field, chunk) ==
    IF chunk = <<>> THEN <<>>
    ELSE LET o == Head(chunk)[field]
             tl == FilterMapSome(field, Tail(chunk))
         IN IF is_some(o) THEN <<unwrap(o)>> \o tl ELSE tl

\* the zero value of the type a conversion starts from
ZeroOf(conv) ==
    CASE conv = "u32_as_i32" -> <<0, 0>>
      [] conv = "u64_as_i64" -> U64Zero
      [] conv = "u8_as_i32" -> 0
      [] conv = "u16_as_i32" -> 0
      [] OTHER -> B32(0)

\* EncData with `.map(|el| el.f.unwrap_or_default())` in place of filter_map:
\* one value per row, also for the null rows
EncDataUnwrapOrDefault(ec, chunk) ==
    [r \in 1..Len(chunk) |->
       EncValue(ec.conv,
                IF ec.def
                  THEN (IF is_some(chunk[r][ec.field]) THEN unwrap(chunk[r][ec.field])
                        ELSE ZeroOf(ec.conv))
                  ELSE chunk[r][ec.field])]

\* the `data` vector a column block hands to write_batch
EncData(ec, chunk) ==
    IF ec.def
      THEN LET present == FilterMapSome(ec.field, chunk)
           IN [j \in 1..Len(present) |-> EncValue(ec.conv, present[j])]
      ELSE [r \in 1..Len(chunk) |-> EncValue(ec.conv, chunk[r][ec.field])]

\* ------------------------------------------------------------------------
\* Container writer, as the codec drives it (parquet crate calls)
\* ------------------------------------------------------------------------
GzipMaxLevel == 9

\* GzipLevel::try_new that accepts every level
GzipLevelTryNewAny(level) == TRUE

\* GzipLevel::try_new(compression_level)
GzipLevelTryNew(level) == level <= GzipMaxLevel

NoFile == [created |-> FALSE, schema |-> <<>>, compression |-> <<>>, groups |-> <<>>, closed |-> FALSE]

\* get_writer::<T, _>(writer, compression_level): the writer properties always
\* carry Compression::GZIP(level); the writer starts with no row group
get_writer(kind, level) ==
    [created |-> TRUE, schema |-> schema(kind),
     compression |-> <<"GZIP", level>>, groups |-> <<>>, closed |-> FALSE]

NoColumn == [idx |-> 0, written |-> FALSE, field |-> "", typed |-> "",
             def_levels |-> None, values |-> <<>>, num_rows |-> 0,
             given |-> 0, given_levels |-> None]

\* group.next_column(): the writer of the next column of the schema, if any
next_column(sch, idx) ==
    IF idx <= Len(sch.fields) THEN Some([NoColumn EXCEPT !.idx = idx]) ELSE None

RECURSIVE CountOnes(_)
CountOnes(levels) ==
    IF levels = <<>> THEN 0
    ELSE (IF Head(levels) = 1 THEN 1 ELSE 0) + CountOnes(Tail(levels))

\* column.typed::<T>().write_batch(values, def_levels, None) on the column
\* described by descr.  typed::<T>() panics on a physical type other than the
\* column's.  An OPTIONAL column needs definition levels, takes one row per
\* level and one value per level equal to 1; a REQUIRED column takes one row
\* per value.
write_batch(descr, typed, values, def_levels) ==
    IF typed # descr.physical THEN [ok |-> FALSE]
    ELSE IF descr.repetition = "OPTIONAL"
      THEN IF is_none(def_levels) THEN [ok |-> FALSE]
           ELSE LET levels == unwrap(def_levels)
                    need == CountOnes(levels)
                IN IF Len(values) < need THEN [ok |-> FALSE]
                   ELSE [ok |-> TRUE, num_rows |-> Len(levels),
                         def_levels |-> Some(levels), values |-> SubSeq(values, 1, need)]
      ELSE [ok |-> TRUE, num_rows |-> Len(values), def_levels |-> None, values |-> values]

\* column.close(): the chunk joins the row group unless its row count differs
\* from that of the columns closed before it
ColumnCloseOk(grp, c) == \A k \in 1..Len(grp) : grp[k].num_rows = c.num_rows

\* group.close(): every column of the schema must have been written
GroupCloseOk(sch, grp) == Len(grp) = Len(sch.fields)

\* ------------------------------------------------------------------------
\* Row decoders: the field matches of each decode_subset, in code order.
\*   field     the record field the matched value is stored in
\*   variant   the Field variant the match accepts
\*   nullable  TRUE when the match also accepts Field::Null (giving None)
\*   build     the constructor applied to the matched value
\* ------------------------------------------------------------------------
Dec(field, variant, nullable, build) ==
    [field |-> field, variant |-> variant, nullable |-> nullable, build |-> build]

DecCoinConfig ==
    << Dec("tx_id", "Bytes", TRUE, "Bytes32"),
       Dec("output_index", "UByte", TRUE, "deref"),
       Dec("tx_pointer_block_height", "UInt", TRUE, "BlockHeight"),
       Dec("tx_pointer_tx_idx", "UShort", TRUE, "deref"),
       Dec("maturity", "UInt", TRUE, "BlockHeight"),
       Dec("owner", "Bytes", FALSE, "Bytes32"),
       Dec("amount", "ULong", FALSE, "deref"),
       Dec("asset_id", "Bytes", FALSE, "Bytes32") >>

DecMessageConfig ==
    << Dec("sender", "Bytes", FALSE, "Bytes32"),
       Dec("recipient", "Bytes", FALSE, "Bytes32"),
       Dec("nonce", "Bytes", FALSE, "Bytes32"),
       Dec("amount", "ULong", FALSE, "deref"),
       Dec("data", "Bytes", FALSE, "to_vec"),
       Dec("da_height", "ULong", FALSE, "DaBlockHeight") >>

DecContractState ==
    << Dec("key", "Bytes", FALSE, "Bytes32"),
       Dec("value", "Bytes", FALSE, "Bytes32") >>

DecContractBalance ==
    << Dec("asset_id", "Bytes", FALSE, "Bytes32"),
       Dec("amount", "ULong", FALSE, "deref") >>

DecContractConfig ==
    << Dec("contract_id", "Bytes", FALSE, "Bytes32"),
       Dec("code", "Bytes", FALSE, "to_vec"),
       Dec("salt", "Bytes", FALSE, "Bytes32"),
       Dec("tx_id", "Bytes", TRUE, "Bytes32"),
       Dec("output_index", "UByte", TRUE, "deref"),
       Dec("tx_pointer_block_height", "UInt", TRUE, "BlockHeight"),
       Dec("tx_pointer_tx_idx", "UShort", TRUE, "deref") >>

\* DecCols with the Coin decoder storing the sixth column in asset_id and the
\* eighth in owner
DecColsOwnerAssetSwapped(kind) ==
    CASE kind = "CoinConfig" ->
           [i \in 1..Len(DecCoinConfig) |->
              IF i = 6 THEN DecCoinConfig[8] ELSE IF i = 8 THEN DecCoinConfig[6]
              ELSE DecCoinConfig[i]]
      [] kind = "MessageConfig" -> DecMessageConfig
      [] kind = "ContractState" -> DecContractState
      [] kind = "ContractBalance" -> DecContractBalance
      [] kind = "ContractConfig" -> DecContractConfig

DecCols(kind) ==
    CASE kind = "CoinConfig" -> DecCoinConfig
      [] kind = "MessageConfig" -> DecMessageConfig
      [] kind = "ContractState" -> DecContractState
      [] kind = "ContractBalance" -> DecContractBalance
      [] kind = "ContractConfig" -> DecContractConfig

\* DecodeField whose optional columns fall back to None on an unexpected variant
DecodeFieldLenient(dc, fld) ==
    IF fld.variant = "Null"
      THEN IF dc.nullable THEN [ok |-> TRUE, v |-> None] ELSE [ok |-> FALSE, v |-> None]
    ELSE IF fld.variant # dc.variant THEN [ok |-> dc.nullable, v |-> None]
    ELSE IF dc.build = "Bytes32" /\ Len(fld.v) # HashLen THEN [ok |-> FALSE, v |-> None]
    ELSE [ok |-> TRUE, v |-> IF dc.nullable THEN Some(fld.v) ELSE fld.v]

\* one `match iter.next().unwrap().1 { .. }` with its constructor: ok is FALSE
\* where the code panics (unexpected variant, or a byte array that is not 32
\* bytes long handed to try_into().unwrap())
DecodeField(dc, fld) ==
    IF fld.variant = "Null"
      THEN IF dc.nullable THEN [ok |-> TRUE, v |-> None] ELSE [ok |-> FALSE, v |-> None]
    ELSE IF fld.variant # dc.variant THEN [ok |-> FALSE, v |-> None]
    ELSE IF dc.build = "Bytes32" /\ Len(fld.v) # HashLen THEN [ok |-> FALSE, v |-> None]
    ELSE [ok |-> TRUE, v |-> IF dc.nullable THEN Some(fld.v) ELSE fld.v]

\* the body of the `for row in ..` loop: the record built from one row
DecodeRow(kind, row) ==
    LET dcs == DecCols(kind)
        res == [i \in 1..Len(dcs) |->
                  IF i <= Len(row) THEN DecodeField(dcs[i], row[i][2])
                  ELSE [ok |-> FALSE, v |-> None]]
        idx(f) == CHOOSE i \in 1..Len(dcs) : dcs[i].field = f
    IN [ok |-> \A i \in 1..Len(dcs) : res[i].ok,
        rec |-> [f \in {dcs[i].field : i \in 1..Len(dcs)} |-> res[idx(f)].v],
        pulled |-> [i \in 1..Len(dcs) |->
                      IF i <= Len(row) THEN <<row[i][1], dcs[i].field>> ELSE <<"", dcs[i].field>>]]

\* ------------------------------------------------------------------------
\* State
\* ------------------------------------------------------------------------
VARIABLES
    kind,               \* the record type T of Encode<T, W> / Decode<T, R>
    data,               \* the batch handed to encode_subset
    batch_size,         \* ParquetCodec::batch_size
    compression_level,  \* ParquetCodec::compression_level
    pc,                 \* position in encode_subset / decode_subset
    rest,               \* the records the chunk iterator has not yielded yet
    chunk,              \* the chunk being written (chunk.collect_vec())
    chunks,             \* the chunks of the row groups closed so far
    col,                \* the column block of encode_subset being executed
    file,               \* the container written to the sink
    group,              \* the column chunks closed in the open row group
    column,             \* the open column writer
    open_groups,        \* the row groups opened and not yet closed
    open_columns,       \* the <<row group, column>> writers opened and not yet closed
    rows,               \* the rows the row iterator has not yielded yet
    deser,              \* the records (`_deser`) built by decode_subset so far
    pulled,             \* for the last row: <<column name, record field>> per pulled field
    run,                \* 1 for the first encode/decode of the batch, 2 for the second
    prev,               \* what the first run produced, once a second run has started
    cast,               \* a single value on its way through the integer casts
    compressor,         \* encode_compressed: the GzEncoder over the buffer
    zlib,               \* Data<ZlibEncoder<&mut Vec<u8>>>: the five wrapped buffers
    sink,               \* the writer W under encode_subset: writes it still accepts
    stream,             \* decode_subset of JsonCodec / BsonCodec / BincodeCodec over a reader
    api,                \* InMemorySource, its buffer and cursors, and a StateReader on it
    other,              \* a second encode_subset call on the same ParquetCodec value
    payload,            \* PayloadCodec::encode / decode over a Payload and a Data<W>
    hex                 \* a value or a string on its way through HexNumber

vars == <<kind, data, batch_size, compression_level, pc, rest, chunk, chunks, col, file,
          group, column, open_groups, open_columns, rows, deser, pulled, run, prev, cast,
          compressor, zlib, sink, stream, api, other,
          payload, hex>>

\* the state of the encode paths other than ParquetCodec's
others == <<compressor, zlib, stream, api, other, payload, hex>>

aux == <<cast, others>>

\* ------------------------------------------------------------------------
\* Container reader: SerializedFileReader::new + get_row_iter(Some(schema))
\* ------------------------------------------------------------------------
Field(variant, v) == [variant |-> variant, v |-> v]

\* parquet::record::Field::convert_int32 / convert_int64 / convert_byte_array:
\* the physical value seen through the column's converted type
convert(descr, v) ==
    CASE descr.physical = "INT32" ->
           (CASE descr.converted = "UINT_8" -> Field("UByte", I32AsU8(v))
              [] descr.converted = "UINT_16" -> Field("UShort", I32AsU16(v))
              [] descr.converted = "UINT_32" -> Field("UInt", I32AsU32(v))
              [] OTHER -> Field("Int", v))
      [] descr.physical = "INT64" ->
           (CASE descr.converted = "UINT_64" -> Field("ULong", I64AsU64(v))
              [] OTHER -> Field("Long", v))
      [] OTHER -> Field("Bytes", v)

\* the field of row r of a column chunk: one definition level is consumed per
\* row, and one value of the dense stream per level equal to 1
ColumnField(descr, c, r) ==
    IF is_some(c.def_levels)
      THEN LET levels == unwrap(c.def_levels)
           IN IF levels[r] = 1
                THEN convert(descr, c.values[CountOnes(SubSeq(levels, 1, r))])
                ELSE Field("Null", <<>>)
      ELSE convert(descr, c.values[r])

\* the codec a page is compressed with: the writer properties' codec and level
Compress(compression, values) ==
    [codec |-> compression[1], level |-> compression[2], payload |-> values]

\* the page through the decompressor of the given codec
Decompress(page_codec, page) ==
    IF page.codec = page_codec THEN Some(page.payload) ELSE None

\* PageCodec taken from the decoding codec value instead of the container
PageCodecOfInstance(f) == IF compression_level = 0 THEN "UNCOMPRESSED" ELSE "GZIP"

\* the codec the reader decompresses with: the one recorded in the container
PageCodec(f) == f.compression[1]

\* Type::check_contains: the root names are equal and every projected column
\* is in the file with the same repetition and physical type
check_contains(fsch, proj) ==
    /\ fsch.name = proj.name
    /\ \A i \in 1..Len(proj.fields) : \E j \in 1..Len(fsch.fields) :
          /\ fsch.fields[j].name = proj.fields[i].name
          /\ fsch.fields[j].repetition = proj.fields[i].repetition
          /\ fsch.fields[j].physical = proj.fields[i].physical

\* the file column a projected column path resolves to
FileColumn(fsch, name) == CHOOSE j \in 1..Len(fsch.fields) : fsch.fields[j].name = name

\* every page of the projected columns decompresses
PagesOk(f, proj) ==
    \A g \in 1..Len(f.groups) : \A i \in 1..Len(proj.fields) :
       is_some(Decompress(PageCodec(f), f.groups[g][FileColumn(f.schema, proj.fields[i].name)].values))

\* the rows of one row group: the projected columns in projection order, each
\* read through the descriptor the file records for it
GroupRows(f, proj, grp) ==
    LET n == IF grp = <<>> THEN 0 ELSE grp[1].num_rows
        page(c) == [c EXCEPT !.values = unwrap(Decompress(PageCodec(f), c.values))]
    IN [r \in 1..n |->
          [i \in 1..Len(proj.fields) |->
             LET j == FileColumn(f.schema, proj.fields[i].name)
             IN <<proj.fields[i].name, ColumnField(f.schema.fields[j], page(grp[j]), r)>>]]

RECURSIVE FileRows(_, _, _)
\* the rows the row iterator yields: row groups in file order, rows in write order
FileRows(f, proj, groups) ==
    IF groups = <<>> THEN <<>>
    ELSE GroupRows(f, proj, Head(groups)) \o FileRows(f, proj, Tail(groups))

\* SerializedFileReader::new + get_row_iter(Some(projection)): the footer must
\* be there, the projection must be contained in the file schema
get_row_iter(f, projection) ==
    IF f.created /\ f.closed /\ check_contains(f.schema, projection) /\ PagesOk(f, projection)
      THEN Some(FileRows(f, projection, f.groups))
      ELSE None

\* ------------------------------------------------------------------------
\* Calls
\* ------------------------------------------------------------------------
codec == <<kind, data, compression_level>>

CompressionLevels == {0, 1}

NoPrev == [deser |-> <<>>, groups |-> 0, batch_size |-> 0, compression |-> <<>>]

NoCast == [pc |-> "none", origin |-> "none", col |-> 0, logical |-> 0, physical |-> 0,
           fld |-> Field("Null", <<>>), out |-> None]

\* flate2 write encoders (GzEncoder, ZlibEncoder) over a Vec<u8>: header,
\* body and trailer are what has reached the buffer, pending what the encoder
\* accepted and still holds
NoEncoder == [header |-> FALSE, pending |-> <<>>, body |-> <<>>, trailer |-> FALSE]

\* write of items: the encoder takes them in and hands the first k pending
\* items on to the buffer
write(e, items, k) ==
    LET all == e.pending \o items
    IN [header |-> e.header \/ k > 0,
        pending |-> SubSeq(all, k + 1, Len(all)),
        body |-> e.body \o SubSeq(all, 1, k),
        trailer |-> e.trailer]

\* finish that only flushes: what is pending reaches the buffer, no trailer
finish_without_trailer(e) ==
    [header |-> TRUE, pending |-> <<>>, body |-> e.body \o e.pending, trailer |-> e.trailer]

\* finish(): what is pending and the trailer reach the buffer
finish(e) ==
    [header |-> TRUE, pending |-> <<>>, body |-> e.body \o e.pending, trailer |-> TRUE]

DataFields == {"coins", "messages", "contracts", "contract_state", "contract_balance"}

NoCompressor == [pc |-> "none", entries |-> <<>>, e |-> NoEncoder]

NoZlib == [pc |-> "none", written |-> [f \in DataFields |-> <<>>],
           enc |-> [f \in DataFields |-> NoEncoder]]

\* the sink accepts `left` more writes and fails the one after them; a
\* healthy sink (left = -1) accepts every write
Healthy == [left |-> -1, error |-> FALSE]

SinkOk == sink.left # 0

\* the sink after a step that writes to it when attempted holds
Written(s, attempted) ==
    IF ~attempted THEN s
    ELSE IF s.left = 0 THEN [s EXCEPT !.error = TRUE]
    ELSE IF s.left > 0 THEN [s EXCEPT !.left = @ - 1]
    ELSE s

NoStream == [codec |-> "none", pc |-> "none", src |-> <<>>, pos |-> 0, decoded |-> 0]

NoApi == [pc |-> "none", by |-> "none", entries |-> <<>>, batch_size |-> 1, rest |-> <<>>,
          writer |-> [dest |-> <<>>, data |-> <<>>, written_bytes |-> 0],
          element_cursors |-> <<>>, data |-> <<>>, start |-> 0,
          reader |-> [pos |-> 0, amount_read |-> 0], seen |-> <<>>, batches |-> <<>>]

NoOther == [pc |-> "none", data |-> <<>>, rest |-> <<>>, file |-> NoFile]

NoPayload == [pc |-> "none", subsets |-> [f \in DataFields |-> 0],
              writers |-> [f \in DataFields |-> <<>>], encoded |-> <<>>, decoded |-> <<>>]

NoHex == [pc |-> "none", size |-> 1, value |-> <<>>, str |-> <<>>, bytes |-> <<>>,
          result |-> None]

OthersIdle ==
    /\ compressor = NoCompressor
    /\ zlib = NoZlib
    /\ stream = NoStream
    /\ api = NoApi
    /\ other = NoOther
    /\ payload = NoPayload
    /\ hex = NoHex

\* the locals of a call before it starts
Fresh ==
    /\ pc = "get_writer"
    /\ rest = <<>>
    /\ chunk = <<>>
    /\ chunks = <<>>
    /\ col = 0
    /\ file = NoFile
    /\ group = <<>>
    /\ column = NoColumn
    /\ open_groups = {}
    /\ open_columns = {}
    /\ rows = <<>>
    /\ deser = <<>>
    /\ pulled = <<>>

\* a call about to start, whatever the sink
Start ==
    /\ kind \in Kinds
    /\ data \in SeqsUpTo(Records(kind), MaxLen)
    /\ batch_size \in 1..MaxBatchSize
    /\ compression_level \in CompressionLevels
    /\ Fresh
    /\ run = 1
    /\ prev = NoPrev
    /\ cast = NoCast
    /\ OthersIdle

Init ==
    /\ Start
    /\ sink = Healthy

Panic ==
    /\ pc' = "panic"
    /\ UNCHANGED <<rest, chunk, chunks, col, file, group, column, open_groups,
                   open_columns, rows, deser, pulled>>

\* ------------------------------------------------------------------------
\* encode_subset
\* ------------------------------------------------------------------------
\* let mut writer = get_writer::<T, _>(writer, self.compression_level);
GetWriter ==
    /\ pc = "get_writer"
    /\ IF GzipLevelTryNew(compression_level) /\ SinkOk
         THEN /\ file' = get_writer(kind, compression_level)
              /\ pc' = "chunks"
              /\ UNCHANGED <<rest, chunk, chunks, col, group, column, open_groups,
                             open_columns, rows, deser, pulled>>
         ELSE Panic
    /\ sink' = Written(sink, GzipLevelTryNew(compression_level))
    /\ UNCHANGED <<codec, batch_size, run, prev, aux>>

\* chunks that takes every size
ChunksAssertNothing(size) == TRUE

\* itertools chunks(size): assert!(size != 0)
ChunksAssert(size) == size # 0

\* data.into_iter().chunks(self.batch_size)
Chunks ==
    /\ pc = "chunks"
    /\ IF ChunksAssert(batch_size)
         THEN /\ rest' = data
              /\ pc' = "loop"
              /\ UNCHANGED <<chunk, chunks, col, file, group, column, open_groups,
                             open_columns, rows, deser, pulled>>
         ELSE Panic
    /\ UNCHANGED <<codec, batch_size, run, prev, aux, sink>>

\* NextChunk that loses the last record of every chunk
NextChunkDropsLast(items, size) == SubSeq(items, 1, Min(size, Len(items)) - 1)

\* the next chunk the iterator yields: up to size records from the front
NextChunk(items, size) == SubSeq(items, 1, Min(size, Len(items)))

\* AfterChunk that steps one record too far
AfterChunkSkipsOne(items, size) == SubSeq(items, Min(size, Len(items)) + 2, Len(items))

AfterChunk(items, size) == SubSeq(items, Min(size, Len(items)) + 1, Len(items))

\* for chunk in ..  { let mut group = writer.next_row_group().unwrap();
\*                    let chunk = chunk.collect_vec();
NextRowGroup ==
    /\ pc = "loop"
    /\ rest # <<>>
    /\ IF open_groups = {}
         THEN /\ open_groups' = {Len(file.groups) + 1}
              /\ chunk' = NextChunk(rest, batch_size)
              /\ rest' = AfterChunk(rest, batch_size)
              /\ group' = <<>>
              /\ col' = 1
              /\ pc' = "next_column"
              /\ UNCHANGED <<chunks, file, column, open_columns, rows, deser, pulled>>
         ELSE Panic
    /\ UNCHANGED <<codec, batch_size, run, prev, aux, sink>>

\* let mut column = group.next_column().unwrap().unwrap();
NextColumn ==
    /\ pc = "next_column"
    /\ LET nxt == next_column(file.schema, Len(group) + 1)
       IN IF open_columns = {} /\ is_some(nxt)
            THEN /\ column' = unwrap(nxt)
                 /\ open_columns' = {<<Len(file.groups) + 1, Len(group) + 1>>}
                 /\ pc' = "write_batch"
                 /\ UNCHANGED <<rest, chunk, chunks, col, file, group, open_groups,
                                rows, deser, pulled>>
            ELSE Panic
    /\ UNCHANGED <<codec, batch_size, run, prev, aux, sink>>

\* let def_levels = ..; let data = ..;
\* column.typed::<..>().write_batch(&data, Some(&def_levels) | None, None).unwrap();
WriteBatch ==
    /\ pc = "write_batch"
    /\ LET ec == EncCols(kind)[col]
           values == EncData(ec, chunk)
           def_levels == IF ec.def THEN Some(EncDefLevels(ec, chunk)) ELSE None
           res == write_batch(file.schema.fields[column.idx], ec.typed, values, def_levels)
       IN /\ IF res.ok /\ SinkOk
            THEN /\ column' = [idx |-> column.idx, written |-> TRUE, field |-> ec.field,
                               typed |-> ec.typed, def_levels |-> res.def_levels,
                               values |-> res.values, num_rows |-> res.num_rows,
                               given |-> Len(values), given_levels |-> def_levels]
                 /\ pc' = "column_close"
                 /\ UNCHANGED <<rest, chunk, chunks, col, file, group, open_groups,
                                open_columns, rows, deser, pulled>>
            ELSE Panic
          /\ sink' = Written(sink, res.ok)
    /\ UNCHANGED <<codec, batch_size, run, prev, aux>>

\* CloseColumn that leaves the writer open
CloseColumnLeaves(open, c) == open

\* the column writers left open once writer c is closed
CloseColumn(open, c) == open \ {c}

\* column.close().unwrap();
ColumnClose ==
    /\ pc = "column_close"
    /\ IF ColumnCloseOk(group, column) /\ SinkOk
         THEN /\ group' = Append(group, [column EXCEPT !.values = Compress(file.compression, @)])
              /\ open_columns' = CloseColumn(open_columns, <<Len(file.groups) + 1, column.idx>>)
              /\ column' = NoColumn
              /\ IF col < Len(EncCols(kind))
                   THEN col' = col + 1 /\ pc' = "next_column"
                   ELSE col' = col /\ pc' = "group_close"
              /\ UNCHANGED <<rest, chunk, chunks, file, open_groups, rows, deser, pulled>>
         ELSE Panic
    /\ sink' = Written(sink, ColumnCloseOk(group, column))
    /\ UNCHANGED <<codec, batch_size, run, prev, aux>>

\* the row group writers left open once writer g is closed
CloseGroup(open, g) == open \ {g}

\* group.close().unwrap();  }
GroupClose ==
    /\ pc = "group_close"
    /\ IF open_columns = {} /\ GroupCloseOk(file.schema, group) /\ SinkOk
         THEN /\ file' = [file EXCEPT !.groups = Append(@, group)]
              /\ chunks' = Append(chunks, chunk)
              /\ open_groups' = CloseGroup(open_groups, Len(file.groups) + 1)
              /\ group' = <<>>
              /\ pc' = "loop"
              /\ UNCHANGED <<rest, chunk, col, column, open_columns, rows, deser, pulled>>
         ELSE Panic
    /\ sink' = Written(sink, open_columns = {} /\ GroupCloseOk(file.schema, group))
    /\ UNCHANGED <<codec, batch_size, run, prev, aux>>

\* CloseWriter that writes the footer only behind at least one row group
CloseWriterNeedsGroup(f) == [f EXCEPT !.closed = (f.groups # <<>>)]

\* writer.close(): the footer is written behind whatever row groups there are
CloseWriter(f) == [f EXCEPT !.closed = TRUE]

\* writer.close().unwrap();  -- encode_subset returns
WriterClose ==
    /\ pc = "loop"
    /\ rest = <<>>
    /\ IF open_groups = {} /\ SinkOk
         THEN /\ file' = CloseWriter(file)
              /\ pc' = "reader_new"
              /\ UNCHANGED <<rest, chunk, chunks, col, group, column, open_groups,
                             open_columns, rows, deser, pulled>>
         ELSE Panic
    /\ sink' = Written(sink, open_groups = {})
    /\ UNCHANGED <<codec, batch_size, run, prev, aux>>

\* ------------------------------------------------------------------------
\* decode_subset
\* ------------------------------------------------------------------------
\* let reader = SerializedFileReader::new(..).unwrap();
\* for row in reader.get_row_iter(Some(T::schema())).unwrap() {
ReaderNew ==
    /\ pc = "reader_new"
    /\ LET it == get_row_iter(file, schema(kind))
       IN IF is_some(it)
            THEN /\ rows' = unwrap(it)
                 /\ pc' = "row_iter"
                 /\ UNCHANGED <<rest, chunk, chunks, col, file, group, column,
                                open_groups, open_columns, deser, pulled>>
            ELSE Panic
    /\ UNCHANGED <<codec, batch_size, run, prev, aux, sink>>

\* the loop body: pull every field of the row, build `_deser`
DecodeNextRow ==
    /\ pc = "row_iter"
    /\ rows # <<>>
    /\ LET r == DecodeRow(kind, Head(rows))
       IN IF r.ok
            THEN /\ deser' = Append(deser, r.rec)
                 /\ pulled' = r.pulled
                 /\ rows' = Tail(rows)
                 /\ UNCHANGED <<pc, rest, chunk, chunks, col, file, group, column,
                                open_groups, open_columns>>
            ELSE Panic
    /\ UNCHANGED <<codec, batch_size, run, prev, aux, sink>>

\* the row iterator is exhausted: decode_subset returns
DecodeEnd ==
    /\ pc = "row_iter"
    /\ rows = <<>>
    /\ pc' = "done"
    /\ UNCHANGED <<rest, chunk, chunks, col, file, group, column, open_groups,
                   open_columns, rows, deser, pulled>>
    /\ UNCHANGED <<codec, batch_size, run, prev, aux, sink>>

Next ==
    \/ GetWriter
    \/ Chunks
    \/ NextRowGroup
    \/ NextColumn
    \/ WriteBatch
    \/ ColumnClose
    \/ GroupClose
    \/ WriterClose
    \/ ReaderNew
    \/ DecodeNextRow
    \/ DecodeEnd

Spec == Init /\ [][Next]_vars

\* ------------------------------------------------------------------------
\* The same batch encoded and decoded a second time by a ParquetCodec with
\* another batch_size, writing into a fresh buffer
\* ------------------------------------------------------------------------
EncodeAgain ==
    /\ pc = "done"
    /\ run = 1
    /\ run' = 2
    /\ prev' = [deser |-> deser, groups |-> Len(file.groups), batch_size |-> batch_size,
                 compression |-> file.compression]
    /\ batch_size' \in (1..MaxBatchSize) \ {batch_size}
    /\ pc' = "get_writer"
    /\ rest' = <<>>
    /\ chunk' = <<>>
    /\ chunks' = <<>>
    /\ col' = 0
    /\ file' = NoFile
    /\ group' = <<>>
    /\ column' = NoColumn
    /\ open_groups' = {}
    /\ open_columns' = {}
    /\ rows' = <<>>
    /\ deser' = <<>>
    /\ pulled' = <<>>
    /\ UNCHANGED <<codec, aux, sink>>

NextTwo == Next \/ EncodeAgain

SpecTwo == Init /\ [][NextTwo]_vars

\* the calls that are followed together with another one take a short batch
InitPar ==
    /\ Init
    /\ Len(data) <= MaxParLen

\* ------------------------------------------------------------------------
\* The same batch encoded a second time by a ParquetCodec with another valid
\* compression_level, one of the two levels being 0 (main.rs builds the codec
\* with 0 and with 1), and containers decoded by a ParquetCodec value other
\* than the one that encoded them
\* ------------------------------------------------------------------------
OtherLevels == {0, 1, GzipMaxLevel}

EncodeAgainLevel ==
    /\ pc = "done"
    /\ run = 1
    /\ run' = 2
    /\ prev' = [deser |-> deser, groups |-> Len(file.groups), batch_size |-> batch_size,
                 compression |-> file.compression]
    /\ compression_level' \in OtherLevels
    /\ (compression_level' = 0) # (file.compression[2] = 0)
    /\ pc' = "get_writer"
    /\ rest' = <<>>
    /\ chunk' = <<>>
    /\ chunks' = <<>>
    /\ col' = 0
    /\ file' = NoFile
    /\ group' = <<>>
    /\ column' = NoColumn
    /\ open_groups' = {}
    /\ open_columns' = {}
    /\ rows' = <<>>
    /\ deser' = <<>>
    /\ pulled' = <<>>
    /\ UNCHANGED <<kind, data, batch_size, aux, sink>>

\* decode_subset(&self, reader) called on a ParquetCodec value of another
\* compression_level than the one that wrote the container
DecodeWithOtherCodec ==
    /\ pc = "reader_new"
    /\ compression_level = file.compression[2]
    /\ compression_level' \in OtherLevels \ {compression_level}
    /\ UNCHANGED <<pc, rest, chunk, chunks, col, file, group, column, open_groups,
                   open_columns, rows, deser, pulled>>
    /\ UNCHANGED <<kind, data, batch_size, run, prev, aux, sink>>

NextLevels == Next \/ EncodeAgainLevel \/ DecodeWithOtherCodec

SpecLevels == InitPar /\ [][NextLevels]_vars

\* ------------------------------------------------------------------------
\* decode_subset handed a container another writer produced for the same
\* records: one column carries no converted type ("plain"), or 16-byte
\* values ("short"), or is not in the file at all ("missing")
\* ------------------------------------------------------------------------
HalfHashLen == 16

RemoveAt(s, i) == SubSeq(s, 1, i - 1) \o SubSeq(s, i + 1, Len(s))

\* whether column i of the container can differ in that way
ForeignOk(f, i, how) ==
    CASE how = "plain" -> f.schema.fields[i].converted # "NONE"
      [] how = "short" -> f.schema.fields[i].physical = "FIXED_LEN_BYTE_ARRAY"
      [] OTHER -> TRUE

\* the container with column i written that way
Foreign(f, i, how) ==
    CASE how = "plain" -> [f EXCEPT !.schema.fields[i].converted = "NONE"]
      [] how = "short" ->
           [f EXCEPT !.schema.fields[i].length = HalfHashLen,
                     !.groups = [g \in 1..Len(@) |->
                                   [@[g] EXCEPT ![i].values.payload =
                                       [k \in 1..Len(@) |-> SubSeq(@[k], 1, HalfHashLen)]]]]
      [] OTHER ->
           [f EXCEPT !.schema.fields = RemoveAt(@, i),
                     !.groups = [g \in 1..Len(@) |-> RemoveAt(@[g], i)]]

\* the bytes given to decode_subset are those of such a container
ForeignContainer ==
    /\ pc = "reader_new"
    /\ file.schema = schema(kind)
    /\ \E i \in 1..Len(file.schema.fields), how \in {"plain", "short", "missing"} :
          /\ ForeignOk(file, i, how)
          /\ file' = Foreign(file, i, how)
    /\ UNCHANGED <<pc, rest, chunk, chunks, col, group, column, open_groups,
                   open_columns, rows, deser, pulled>>
    /\ UNCHANGED <<codec, batch_size, run, prev, aux, sink>>

NextForeign == Next \/ ForeignContainer

SpecForeign == InitPar /\ [][NextForeign]_vars

\* ------------------------------------------------------------------------
\* The encode paths with a compressor of their own, run after the codec's:
\* encode_compressed (a GzEncoder around the buffer, the encoder closure, then
\* finish) and Data::wrap_in_compressor .. Data::finish (five ZlibEncoders)
\* ------------------------------------------------------------------------
main == <<kind, data, batch_size, compression_level, pc, rest, chunk, chunks, col, file,
          group, column, open_groups, open_columns, rows, deser, pulled, run, prev,
          sink>>

\* let mut compressor = GzEncoder::new(buf, Compression::default());
GzEncoderNew ==
    /\ pc = "done"
    /\ compressor.pc = "none"
    /\ \E entries \in SeqsUpTo({"entry"}, MaxWrites) :
          compressor' = [pc |-> "encoder", entries |-> entries, e |-> NoEncoder]
    /\ UNCHANGED <<main, cast, zlib, stream, api, other, payload, hex>>

\* encoder(&mut compressor): the closure writes its entries
Encoder ==
    /\ compressor.pc = "encoder"
    /\ \E k \in 0..Len(compressor.entries) :
          compressor' = [compressor EXCEPT !.pc = "finish",
                                           !.e = write(@, compressor.entries, k)]
    /\ UNCHANGED <<main, cast, zlib, stream, api, other, payload, hex>>

\* compressor.finish().unwrap();  -- encode_compressed returns
CompressorFinish ==
    /\ compressor.pc = "finish"
    /\ compressor' = [compressor EXCEPT !.pc = "returned", !.e = finish(@)]
    /\ UNCHANGED <<main, cast, zlib, stream, api, other, payload, hex>>

\* Data::wrap_in_compressor: a ZlibEncoder around each of the five buffers
wrap_in_compressor ==
    /\ compressor.pc = "returned"
    /\ zlib.pc = "none"
    /\ zlib' = [NoZlib EXCEPT !.pc = "wrapped"]
    /\ UNCHANGED <<main, cast, compressor, stream, api, other, payload, hex>>

\* the payload is written through the wrapped fields
DataWrite ==
    /\ zlib.pc = "wrapped"
    /\ \E entries \in SeqsUpTo({"entry"}, MaxWrites) :
          zlib' = [pc |-> "finish",
                   written |-> [f \in DataFields |-> entries],
                   enc |-> [f \in DataFields |-> write(zlib.enc[f], entries, 0)]]
    /\ UNCHANGED <<main, cast, compressor, stream, api, other, payload, hex>>

\* Data::finish: Ok(Data { coins: self.coins.finish()?, .. })
DataFinish ==
    /\ zlib.pc = "finish"
    /\ zlib' = [zlib EXCEPT !.pc = "returned",
                             !.enc = [f \in DataFields |-> finish(@[f])]]
    /\ UNCHANGED <<main, cast, compressor, stream, api, other, payload, hex>>

NextFinish ==
    \/ Next
    \/ GzEncoderNew
    \/ Encoder
    \/ CompressorFinish
    \/ wrap_in_compressor
    \/ DataWrite
    \/ DataFinish

SpecFinish == Init /\ [][NextFinish]_vars

\* ------------------------------------------------------------------------
\* encode_subset on a ParquetCodec built with any arguments: new() checks
\* neither, so batch_size may be 0 and compression_level above the gzip
\* maximum.  The sink is unlimited or counts the writes it takes.
\* ------------------------------------------------------------------------
InitArgs ==
    /\ kind \in Kinds
    /\ data \in SeqsUpTo(Records(kind), MaxParLen)
    /\ batch_size \in 0..MaxBatchSize
    /\ compression_level \in {0, GzipMaxLevel, GzipMaxLevel + 1}
    /\ Fresh
    /\ run = 1
    /\ prev = NoPrev
    /\ cast = NoCast
    /\ OthersIdle
    /\ sink \in {Healthy, [left |-> MaxSinkWrites, error |-> FALSE]}

SpecArgs == InitArgs /\ [][Next]_vars

\* ------------------------------------------------------------------------
\* serde_types.rs: ParquetTrait::write for ContractConfig writes one record
\* as a row group of its own into a writer the caller made
\* (tests::heyhay: SerializedFileWriter::new(&mut buf, schema, Default::default()),
\* cc.write(&mut writer), writer.close()); here for each record of a short
\* sequence.
\* ------------------------------------------------------------------------
InitWrite ==
    /\ kind = "ContractConfig"
    /\ data \in SeqsUpTo(Records(kind), MaxParLen) \ {<<>>}
    /\ batch_size = 1
    /\ compression_level = 0
    /\ pc = "write"
    /\ rest = data
    /\ chunk = <<>>
    /\ chunks = <<>>
    /\ col = 0
    /\ file = [get_writer(kind, compression_level) EXCEPT !.compression = <<"UNCOMPRESSED", 0>>]
    /\ group = <<>>
    /\ column = NoColumn
    /\ open_groups = {}
    /\ open_columns = {}
    /\ rows = <<>>
    /\ deser = <<>>
    /\ pulled = <<>>
    /\ run = 1
    /\ prev = NoPrev
    /\ cast = NoCast
    /\ OthersIdle
    /\ sink = Healthy

\* one column block of write: a required field, or an optional field that
\* is Some, goes to write_batch as one value (with Some(&[1]) when
\* optional); for an optional field that is None nothing is written
TraitWrite(descr, ec, el) ==
    IF ec.def /\ is_none(el[ec.field])
      THEN [ok |-> TRUE, num_rows |-> 0, def_levels |-> None, values |-> <<>>]
      ELSE write_batch(descr, ec.typed,
                       <<EncValue(ec.conv, IF ec.def THEN unwrap(el[ec.field]) ELSE el[ec.field])>>,
                       IF ec.def THEN Some(<<1>>) ELSE None)

\* let mut group = writer.next_row_group().unwrap();
TraitNextRowGroup ==
    /\ pc = "write"
    /\ rest # <<>>
    /\ open_groups' = {Len(file.groups) + 1}
    /\ chunk' = <<Head(rest)>>
    /\ rest' = Tail(rest)
    /\ group' = <<>>
    /\ col' = 1
    /\ pc' = "write_column"
    /\ UNCHANGED <<chunks, file, column, open_columns, rows, deser, pulled>>
    /\ UNCHANGED <<codec, batch_size, run, prev, aux, sink>>

\* let mut column = group.next_column().unwrap().unwrap();
\* [if let Some(encoded) = self.f] column.typed::<..>().write_batch(..).unwrap();
\* column.close().unwrap();
TraitColumn ==
    /\ pc = "write_column"
    /\ LET nxt == next_column(file.schema, Len(group) + 1)
           ec == EncCols(kind)[col]
           res == TraitWrite(file.schema.fields[col], ec, chunk[1])
           closed == [idx |-> col, written |-> TRUE, field |-> ec.field, typed |-> ec.typed,
                      def_levels |-> res.def_levels,
                      values |-> Compress(file.compression, res.values),
                      num_rows |-> res.num_rows, given |-> Len(res.values),
                      given_levels |-> res.def_levels]
       IN IF is_some(nxt) /\ res.ok /\ ColumnCloseOk(group, closed)
            THEN /\ group' = Append(group, closed)
                 /\ IF col < Len(EncCols(kind))
                      THEN col' = col + 1 /\ pc' = "write_column"
                      ELSE col' = col /\ pc' = "write_group_close"
                 /\ UNCHANGED <<rest, chunk, chunks, file, column, open_groups, open_columns,
                                rows, deser, pulled>>
            ELSE Panic
    /\ UNCHANGED <<codec, batch_size, run, prev, aux, sink>>

\* group.close().unwrap();
TraitGroupClose ==
    /\ pc = "write_group_close"
    /\ IF GroupCloseOk(file.schema, group)
         THEN /\ file' = [file EXCEPT !.groups = Append(@, group)]
              /\ chunks' = Append(chunks, chunk)
              /\ open_groups' = CloseGroup(open_groups, Len(file.groups) + 1)
              /\ group' = <<>>
              /\ pc' = "write"
              /\ UNCHANGED <<rest, chunk, col, column, open_columns, rows, deser, pulled>>
         ELSE Panic
    /\ UNCHANGED <<codec, batch_size, run, prev, aux, sink>>

\* writer.close().unwrap();
TraitWriterClose ==
    /\ pc = "write"
    /\ rest = <<>>
    /\ file' = CloseWriter(file)
    /\ pc' = "written"
    /\ UNCHANGED <<rest, chunk, chunks, col, group, column, open_groups, open_columns,
                   rows, deser, pulled>>
    /\ UNCHANGED <<codec, batch_size, run, prev, aux, sink>>

NextWrite ==
    \/ TraitNextRowGroup
    \/ TraitColumn
    \/ TraitGroupClose
    \/ TraitWriterClose

SpecWrite == InitWrite /\ [][NextWrite]_vars

\* ------------------------------------------------------------------------
\* encode_subset into a sink that fails: one of its first writes returns Err
\* ------------------------------------------------------------------------
InitIo ==
    /\ Start
    /\ sink \in {Healthy} \cup {[left |-> n, error |-> FALSE] : n \in 0..MaxSinkWrites}

SpecIo == InitIo /\ [][Next]_vars

\* ------------------------------------------------------------------------
\* decode_subset of the codecs that read record after record from a BufRead:
\* JsonCodec (one record per line), BsonCodec and BincodeCodec.  The reader
\* delivers, item after item, a well-formed record ("record"), bytes that do
\* not parse as a record ("garbage"), or a failing read ("io_error").
\* ------------------------------------------------------------------------
\* no ParquetCodec call is running
Idle ==
    /\ kind = "CoinConfig"
    /\ data = <<>>
    /\ batch_size = 1
    /\ compression_level = 0
    /\ pc = "idle"
    /\ rest = <<>>
    /\ chunk = <<>>
    /\ chunks = <<>>
    /\ col = 0
    /\ file = NoFile
    /\ group = <<>>
    /\ column = NoColumn
    /\ open_groups = {}
    /\ open_columns = {}
    /\ rows = <<>>
    /\ deser = <<>>
    /\ pulled = <<>>
    /\ run = 1
    /\ prev = NoPrev
    /\ sink = Healthy

InitStream ==
    /\ Idle
    /\ cast = NoCast
    /\ compressor = NoCompressor
    /\ zlib = NoZlib
    /\ api = NoApi
    /\ other = NoOther
    /\ payload = NoPayload
    /\ hex = NoHex
    /\ \E c \in {"JsonCodec", "BsonCodec", "BincodeCodec"},
          src \in SeqsUpTo({"record", "garbage", "io_error"}, MaxItems) :
          stream = [codec |-> c, pc |-> "loop", src |-> src, pos |-> 0, decoded |-> 0]

\* what the reader delivers next: "eof" behind the last item
NextItem(st) == IF st.pos < Len(st.src) THEN st.src[st.pos + 1] ELSE "eof"

\* one `serde_json::from_str::<T>(&line).unwrap()` / `bson::from_reader(..)
\* .unwrap()` / `decode_from_std_read(..).unwrap()` on the next item
ParseUnwrap(st) ==
    IF NextItem(st) = "record"
      THEN [st EXCEPT !.pos = @ + 1, !.decoded = @ + 1]
      ELSE [st EXCEPT !.pc = "panic"]

\* JsonCodec: while data.read_line(&mut line).is_ok() && !line.is_empty() {
\*                serde_json::from_str::<T>(&line).unwrap(); line.clear(); }
JsonDecode ==
    /\ stream.codec = "JsonCodec"
    /\ stream.pc = "loop"
    /\ stream' = IF NextItem(stream) \in {"io_error", "eof"}
                   THEN [stream EXCEPT !.pc = "returned"]
                   ELSE ParseUnwrap(stream)
    /\ UNCHANGED <<main, cast, compressor, zlib, api, other, payload, hex>>

\* BsonCodec: while !data.fill_buf().unwrap().is_empty() {
\*                bson::from_reader::<_, T>(&mut data).unwrap(); }
BsonDecode ==
    /\ stream.codec = "BsonCodec"
    /\ stream.pc = "loop"
    /\ stream' = CASE NextItem(stream) = "io_error" -> [stream EXCEPT !.pc = "panic"]
                    [] NextItem(stream) = "eof" -> [stream EXCEPT !.pc = "returned"]
                    [] OTHER -> ParseUnwrap(stream)
    /\ UNCHANGED <<main, cast, compressor, zlib, api, other, payload, hex>>

\* BincodeCodec: while !data.fill_buf().unwrap().is_empty() {
\*                   bincode::serde::decode_from_std_read(..).unwrap(); }
BincodeDecode ==
    /\ stream.codec = "BincodeCodec"
    /\ stream.pc = "loop"
    /\ stream' = CASE NextItem(stream) = "io_error" -> [stream EXCEPT !.pc = "panic"]
                    [] NextItem(stream) = "eof" -> [stream EXCEPT !.pc = "returned"]
                    [] OTHER -> ParseUnwrap(stream)
    /\ UNCHANGED <<main, cast, compressor, zlib, api, other, payload, hex>>

NextStream ==
    \/ JsonDecode
    \/ BsonDecode
    \/ BincodeDecode

SpecStream == InitStream /\ [][NextStream]_vars

\* ------------------------------------------------------------------------
\* A second encode_subset call on the same ParquetCodec value (&self), with a
\* batch and a buffer of its own, running while the first call encodes and
\* decodes.  The second call is followed row group by row group.
\* ------------------------------------------------------------------------
\* SinkOf with both calls handed the same buffer
SinkOfShared(call) == "first"

\* the buffer behind the `writer: &mut W` argument of a call
SinkOf(call) == call

\* the column chunks one pass of the loop body writes for a chunk
RowGroupOf(k, ch, compression) ==
    [i \in 1..Len(EncCols(k)) |->
       LET ec == EncCols(k)[i]
           values == EncData(ec, ch)
           def_levels == IF ec.def THEN Some(EncDefLevels(ec, ch)) ELSE None
           res == write_batch(schema(k).fields[i], ec.typed, values, def_levels)
       IN [idx |-> i, written |-> TRUE, field |-> ec.field, typed |-> ec.typed,
           def_levels |-> res.def_levels, values |-> Compress(compression, res.values),
           num_rows |-> res.num_rows, given |-> Len(values), given_levels |-> def_levels]]

\* the second call writes f to its buffer
OtherWrites(f, pc2, rest2) ==
    IF SinkOf("second") = "second"
      THEN /\ other' = [other EXCEPT !.file = f, !.pc = pc2, !.rest = rest2]
           /\ file' = file
      ELSE /\ other' = [other EXCEPT !.pc = pc2, !.rest = rest2]
           /\ file' = f

\* the buffer the second call writes to
OtherSink == IF SinkOf("second") = "second" THEN other.file ELSE file

OtherFrame ==
    UNCHANGED <<kind, data, batch_size, compression_level, pc, rest, chunk, chunks, col,
                group, column, open_groups, open_columns, rows, deser, pulled, run, prev,
                sink, cast, compressor, zlib, stream, api, payload, hex>>

\* codec.encode_subset(batch, &mut buffer) is called a second time
OtherCall ==
    /\ other.pc = "none"
    /\ pc \notin {"panic", "idle"}
    /\ other' = [NoOther EXCEPT !.pc = "get_writer", !.data = [i \in 1..Len(data) |-> data[Len(data) + 1 - i]]]
    /\ file' = file
    /\ OtherFrame

\* get_writer(writer, self.compression_level); data.into_iter().chunks(self.batch_size)
OtherGetWriter ==
    /\ other.pc = "get_writer"
    /\ OtherWrites(get_writer(kind, compression_level), "loop", other.data)
    /\ OtherFrame

\* one pass of the for loop: next_row_group, the column blocks, group.close
OtherRowGroup ==
    /\ other.pc = "loop"
    /\ other.rest # <<>>
    /\ OtherWrites([OtherSink EXCEPT !.groups =
                        Append(@, RowGroupOf(kind, NextChunk(other.rest, batch_size),
                                             OtherSink.compression))],
                   "loop", AfterChunk(other.rest, batch_size))
    /\ OtherFrame

\* writer.close().unwrap();  -- the second call returns
OtherClose ==
    /\ other.pc = "loop"
    /\ other.rest = <<>>
    /\ OtherWrites(CloseWriter(OtherSink), "returned", <<>>)
    /\ OtherFrame

NextPar ==
    \/ Next
    \/ OtherCall
    \/ OtherGetWriter
    \/ OtherRowGroup
    \/ OtherClose

\* the first call's batch is short, so that both calls can be followed
\* through every interleaving
SpecPar == InitPar /\ [][NextPar]_vars

\* ------------------------------------------------------------------------
\* api.rs: InMemorySource::new writes the entries batch by batch through a
\* StateWriter (BufWriter) over a TrackingWriter over a Cursor<Vec<u8>> and
\* records where each batch starts; a StateReader is opened on the source at
\* one of those cursors and reads batches.  An entry stands for a record with
\* one optional byte; offsets count bytes from 0.
\* ------------------------------------------------------------------------
\* bincode (LittleEndian, Varint) of one entry: the Option tag, then the value
EncodeEntry(e) == IF is_some(e) THEN <<1, unwrap(e)>> ELSE <<0>>

RECURSIVE EncodeEntries(_)
EncodeEntries(es) ==
    IF es = <<>> THEN <<>> ELSE EncodeEntry(Head(es)) \o EncodeEntries(Tail(es))

\* bincode::serde::encode_into_std_write of a Vec: the length as a varint
\* (one byte below 251), then the entries
encode_into_std_write(coins) == <<Len(coins)>> \o EncodeEntries(coins)

RECURSIVE DecodeEntries(_, _, _)
\* n entries read from offset pos of bytes; ok is FALSE on an unexpected end
\* of the bytes or an invalid Option tag
DecodeEntries(bytes, pos, n) ==
    IF n = 0 THEN [ok |-> TRUE, v |-> <<>>, pos |-> pos]
    ELSE IF pos >= Len(bytes) THEN [ok |-> FALSE, v |-> <<>>, pos |-> pos]
    ELSE LET tag == bytes[pos + 1]
         IN IF tag = 0
              THEN LET r == DecodeEntries(bytes, pos + 1, n - 1)
                   IN [ok |-> r.ok, v |-> <<None>> \o r.v, pos |-> r.pos]
            ELSE IF tag = 1 /\ pos + 1 < Len(bytes)
              THEN LET r == DecodeEntries(bytes, pos + 2, n - 1)
                   IN [ok |-> r.ok, v |-> <<Some(bytes[pos + 2])>> \o r.v, pos |-> r.pos]
            ELSE [ok |-> FALSE, v |-> <<>>, pos |-> pos]

\* bincode::serde::decode_from_std_read of a Vec from offset pos
decode_from_std_read(bytes, pos) ==
    IF pos >= Len(bytes) THEN [ok |-> FALSE, v |-> <<>>, pos |-> pos]
    ELSE DecodeEntries(bytes, pos + 1, bytes[pos + 1])

\* TrackingWriter::write that counts the calls instead of the bytes
TrackingWriterCountsCalls(w, bytes) ==
    [w EXCEPT !.data = @ \o bytes, !.written_bytes = @ + 1]

\* impl Write for TrackingWriter: the bytes go to the Cursor and their number
\* is added to written_bytes
TrackingWriterWrite(w, bytes) ==
    [w EXCEPT !.data = @ \o bytes, !.written_bytes = @ + Len(bytes)]

\* StateWriter::flush that leaves the bytes in the BufWriter
FlushKeepsBuffer(w) == w

\* StateWriter::flush: the BufWriter hands its bytes to the writer below it
StateWriterFlush(w) == TrackingWriterWrite([w EXCEPT !.dest = <<>>], w.dest)

\* StateWriter::write_batch: the encoded batch goes into the BufWriter
StateWriterWriteBatch(w, coins) == [w EXCEPT !.dest = @ \o encode_into_std_write(coins)]

\* StateWriter::into_inner that drops what the BufWriter still holds
into_inner_unflushed(w) == w.data

\* StateWriter::into_inner (BufWriter::into_inner flushes) and the bytes of
\* the writer below it
into_inner(w) == StateWriterFlush(w).data

\* has_data_left that does not look at the buffer
has_data_left_always(bytes, pos) == TRUE

\* TrackingBuffReader::has_data_left: fill_buf gives a non-empty buffer
has_data_left(bytes, pos) == pos < Len(bytes)

\* TrackingBuffReader::read that counts what BufReader fetched from the
\* source, the rest of the bytes, instead of what it handed out
TrackingReadCountsFetched(rd, amount, fetched) ==
    [pos |-> rd.pos + amount, amount_read |-> rd.amount_read + fetched]

\* impl Read for TrackingBuffReader, over the reads of one decode: amount
\* bytes leave the BufReader and are added to amount_read
TrackingRead(rd, amount, fetched) ==
    [pos |-> rd.pos + amount, amount_read |-> rd.amount_read + amount]

\* StateReader::batch_cursor
batch_cursor(rd) == rd.amount_read

\* the entries are written by InMemorySource::new in batches of batch_size,
\* or by one write_batch on a StateWriter of their own
InitApi ==
    /\ Idle
    /\ cast = NoCast
    /\ compressor = NoCompressor
    /\ zlib = NoZlib
    /\ stream = NoStream
    /\ other = NoOther
    /\ payload = NoPayload
    /\ hex = NoHex
    /\ \E entries \in SeqsUpTo({None, Some(0), Some(1)}, MaxEntries), b \in 1..MaxBatchSize,
          by \in {"InMemorySource", "StateWriter"} :
          /\ by = "StateWriter" => b = 1
          /\ api = [NoApi EXCEPT !.pc = IF by = "StateWriter" THEN "writer" ELSE "new",
                                 !.by = by, !.entries = entries, !.batch_size = b,
                                 !.rest = entries]

\* InMemorySource::new, the closure mapped over the chunks:
\*   let cursor = bytes_written.load(..); writer.write_batch(chunk.collect_vec());
\*   writer.flush(); cursor
WriteChunk ==
    /\ api.pc = "new"
    /\ api.rest # <<>>
    /\ api' = [api EXCEPT
                  !.element_cursors = Append(@, api.writer.written_bytes),
                  !.writer = StateWriterFlush(
                                StateWriterWriteBatch(@, NextChunk(api.rest, api.batch_size))),
                  !.rest = AfterChunk(@, api.batch_size)]
    /\ UNCHANGED <<main, cast, compressor, zlib, stream, other, payload, hex>>

\* tests::encodes_and_decodes, tests::works_with_files:
\*   let mut writer = StateWriter::new(..); writer.write_batch(coins.clone())
WriteWhole ==
    /\ api.pc = "writer"
    /\ api' = [api EXCEPT !.pc = "new",
                          !.writer = StateWriterWriteBatch(@, api.entries),
                          !.rest = <<>>]
    /\ UNCHANGED <<main, cast, compressor, zlib, stream, other, payload, hex>>

\* InMemorySource::new: Ok(Self { data: writer.into_inner()?.into_inner(), .. });
\* the tests: Cursor::new(writer.into_inner().unwrap())
IntoInner ==
    /\ api.pc = "new"
    /\ api.rest = <<>>
    /\ api' = [api EXCEPT !.pc = "source", !.data = into_inner(api.writer)]
    /\ UNCHANGED <<main, cast, compressor, zlib, stream, other, payload, hex>>

\* StateReader::new(source, start_cursor): a fresh TrackingBuffReader, then a
\* seek to the cursor.  start_cursor is batch_cursors()[i], or 0 (start = 0)
\* when there are no cursors
StateReaderNew ==
    /\ api.pc = "source"
    /\ \E i \in IF api.element_cursors = <<>> THEN {0} ELSE 1..Len(api.element_cursors) :
          api' = [api EXCEPT !.pc = "reader", !.start = i,
                             !.reader = [pos |-> IF i = 0 THEN 0 ELSE api.element_cursors[i],
                                         amount_read |-> 0]]
    /\ UNCHANGED <<main, cast, compressor, zlib, stream, other, payload, hex>>

\* let cursor = reader.batch_cursor(); reader.read_batch()
\* StateReader::read_batch: decode a Vec if has_data_left, else vec![]
ReadBatch ==
    /\ api.pc = "reader"
    /\ Len(api.batches) < Len(api.element_cursors) + MaxExtraReads
    /\ IF has_data_left(api.data, api.reader.pos)
         THEN LET r == decode_from_std_read(api.data, api.reader.pos)
              IN IF r.ok
                   THEN api' = [api EXCEPT
                                  !.seen = Append(@, batch_cursor(api.reader)),
                                  !.batches = Append(@, r.v),
                                  !.reader = TrackingRead(@, r.pos - @.pos,
                                                          Len(api.data) - @.pos)]
                   ELSE api' = [api EXCEPT !.pc = "error"]
         ELSE api' = [api EXCEPT !.seen = Append(@, batch_cursor(api.reader)),
                                 !.batches = Append(@, <<>>)]
    /\ UNCHANGED <<main, cast, compressor, zlib, stream, other, payload, hex>>

NextApi ==
    \/ WriteChunk
    \/ WriteWhole
    \/ IntoInner
    \/ StateReaderNew
    \/ ReadBatch

SpecApi == InitApi /\ [][NextApi]_vars

\* ------------------------------------------------------------------------
\* encoding.rs: PayloadCodec::encode hands the five subsets of a Payload to
\* encode_subset, each with a writer of Data<W>; PayloadCodec::decode hands
\* the five readers of a Data<R> to decode_subset.  A subset is known by its
\* length; what encode_subset leaves in a writer is the record type it was
\* called for and the number of records.
\* ------------------------------------------------------------------------
\* util.rs: the element type of each field of Payload
PayloadType(f) ==
    CASE f = "coins" -> "CoinConfig"
      [] f = "messages" -> "MessageConfig"
      [] f = "contracts" -> "ContractConfig"
      [] f = "contract_state" -> "ContractState"
      [] f = "contract_balance" -> "ContractBalance"

\* the statements of encode: self.encode_subset(payload.f, &mut writers.w)
EncodeCalls ==
    << [field |-> "coins", writer |-> "coins"],
       [field |-> "messages", writer |-> "messages"],
       [field |-> "contracts", writer |-> "contracts"],
       [field |-> "contract_state", writer |-> "contract_state"],
       [field |-> "contract_balance", writer |-> "contract_balance"] >>

\* DecodeCalls with the contracts reader decoded before the messages reader
DecodeCallsContractsSecond ==
    << [type |-> "CoinConfig", reader |-> "coins"],
       [type |-> "ContractConfig", reader |-> "contracts"],
       [type |-> "MessageConfig", reader |-> "messages"],
       [type |-> "ContractState", reader |-> "contract_state"],
       [type |-> "ContractBalance", reader |-> "contract_balance"] >>

\* the statements of decode: Decode::<T, _>::decode_subset(self, readers.r)
DecodeCalls ==
    << [type |-> "CoinConfig", reader |-> "coins"],
       [type |-> "MessageConfig", reader |-> "messages"],
       [type |-> "ContractConfig", reader |-> "contracts"],
       [type |-> "ContractState", reader |-> "contract_state"],
       [type |-> "ContractBalance", reader |-> "contract_balance"] >>

InitPayload ==
    /\ Idle
    /\ cast = NoCast
    /\ compressor = NoCompressor
    /\ zlib = NoZlib
    /\ stream = NoStream
    /\ api = NoApi
    /\ other = NoOther
    /\ hex = NoHex
    /\ \E subsets \in [DataFields -> 0..MaxWrites] :
          payload = [NoPayload EXCEPT !.pc = "encode", !.subsets = subsets]

\* the next statement of PayloadCodec::encode
PayloadEncodeSubset ==
    /\ payload.pc = "encode"
    /\ LET c == EncodeCalls[Len(payload.encoded) + 1]
           t == PayloadType(c.field)
       IN payload' = [payload EXCEPT
                        !.writers[c.writer] =
                            Append(@, [type |-> t, len |-> payload.subsets[c.field]]),
                        !.encoded = Append(@, [type |-> t, field |-> c.field,
                                               writer |-> c.writer]),
                        !.pc = IF Len(payload.encoded) + 1 = Len(EncodeCalls)
                                 THEN "decode" ELSE "encode"]
    /\ UNCHANGED <<main, cast, compressor, zlib, stream, api, other, hex>>

\* the next statement of PayloadCodec::decode, the readers being over what
\* encode wrote
PayloadDecodeSubset ==
    /\ payload.pc = "decode"
    /\ LET c == DecodeCalls[Len(payload.decoded) + 1]
       IN payload' = [payload EXCEPT
                        !.decoded = Append(@, [type |-> c.type, reader |-> c.reader,
                                               found |-> payload.writers[c.reader]]),
                        !.pc = IF Len(payload.decoded) + 1 = Len(DecodeCalls)
                                 THEN "done" ELSE "decode"]
    /\ UNCHANGED <<main, cast, compressor, zlib, stream, api, other, hex>>

NextPayload ==
    \/ PayloadEncodeSubset
    \/ PayloadDecodeSubset

SpecPayload == InitPayload /\ [][NextPayload]_vars

\* ------------------------------------------------------------------------
\* serde_types.rs: HexNumber for u8, u16, u32 and u64.  An integer of size
\* bytes is its sequence of 16-bit limbs, most significant first (one 8-bit
\* limb for u8); a string is its sequence of characters.
\* ------------------------------------------------------------------------
HexChars == <<"0", "1", "2", "3", "4", "5", "6", "7", "8", "9", "a", "b", "c", "d", "e", "f">>

\* value.to_be_bytes()
to_be_bytes(v, size) ==
    IF size = 1 THEN <<v[1]>>
    ELSE [i \in 1..size |-> IF i % 2 = 1 THEN v[(i + 1) \div 2] \div U8Range
                            ELSE v[i \div 2] % U8Range]

\* $i::from_be_bytes(bytes)
from_be_bytes(bytes, size) ==
    IF size = 1 THEN <<bytes[1]>>
    ELSE [j \in 1..(size \div 2) |-> bytes[2 * j - 1] * U8Range + bytes[2 * j]]

\* target.encode_hex::<String>(): two lower-case digits per byte
encode_hex(bytes) ==
    [i \in 1..(2 * Len(bytes)) |->
       IF i % 2 = 1 THEN HexChars[(bytes[(i + 1) \div 2] \div 16) + 1]
       ELSE HexChars[(bytes[i \div 2] % 16) + 1]]

\* serde_hex::serialize over value.to_be_bytes(): format!("0x{}", ..)
serialize_as(v, size) == <<"0", "x">> \o encode_hex(to_be_bytes(v, size))

RECURSIVE trim_start_matches(_)
\* raw_string.trim_start_matches("0x"): every leading "0x" is removed
trim_start_matches(s) ==
    IF Len(s) >= 2 /\ s[1] = "0" /\ s[2] = "x"
      THEN trim_start_matches(SubSeq(s, 3, Len(s)))
      ELSE s

\* FromHex::from_hex: Err on an odd length or a character that is no digit
from_hex(s) ==
    LET val(c) == IF \E d \in 1..16 : HexChars[d] = c
                    THEN (CHOOSE d \in 1..16 : HexChars[d] = c) - 1 ELSE -1
    IN IF Len(s) % 2 = 1 \/ \E i \in 1..Len(s) : val(s[i]) < 0
         THEN [ok |-> FALSE, bytes |-> <<>>]
         ELSE [ok |-> TRUE,
               bytes |-> [j \in 1..(Len(s) \div 2) |-> val(s[2 * j - 1]) * 16 + val(s[2 * j])]]

\* the padding put behind the bytes instead of in front of them
PadRight(bytes, size) == bytes \o [i \in 1..(size - Len(bytes)) |-> 0]

\* (0..SIZE - len).map(|_| 0u8).chain(bytes.into_iter()).collect()
Pad(bytes, size) == [i \in 1..(size - Len(bytes)) |-> 0] \o bytes

\* DeserializeAs<$i> for HexNumber: serde_hex::deserialize, the length match,
\* from_be_bytes
deserialize_as(s, size) ==
    LET r == from_hex(trim_start_matches(s))
    IN IF ~r.ok \/ Len(r.bytes) > size THEN [ok |-> FALSE, v |-> <<>>]
       ELSE [ok |-> TRUE,
             v |-> from_be_bytes(IF Len(r.bytes) < size THEN Pad(r.bytes, size) ELSE r.bytes,
                                 size)]

\* an integer of one of the four types about to be serialized, or a string
\* of hex digits, with or without "0x", about to be deserialized as one
InitHex ==
    /\ Idle
    /\ cast = NoCast
    /\ compressor = NoCompressor
    /\ zlib = NoZlib
    /\ stream = NoStream
    /\ api = NoApi
    /\ other = NoOther
    /\ payload = NoPayload
    /\ \E size \in {1, 2, 4, 8} :
          \/ \E v \in IF size = 1 THEN {<<0>>, <<1>>, <<171>>, <<U8Range - 1>>}
                      ELSE [1..(size \div 2) -> {0, 1, 43776, Limb - 1}] :
                hex = [NoHex EXCEPT !.pc = "value", !.size = size, !.value = v]
          \/ \E bytes \in SeqsUpTo({0, 171}, size + MaxExtraBytes), prefix \in BOOLEAN :
                hex = [NoHex EXCEPT !.pc = "string", !.size = size, !.bytes = bytes,
                          !.str = (IF prefix THEN <<"0", "x">> ELSE <<>>) \o encode_hex(bytes)]

\* HexNumber::serialize_as(&value, serializer)
HexSerializeAs ==
    /\ hex.pc = "value"
    /\ hex' = [hex EXCEPT !.pc = "string", !.str = serialize_as(hex.value, hex.size)]
    /\ UNCHANGED <<main, cast, compressor, zlib, stream, api, other, payload>>

\* HexNumber::deserialize_as(deserializer)
HexDeserializeAs ==
    /\ hex.pc = "string"
    /\ hex' = [hex EXCEPT !.pc = "done", !.result = Some(deserialize_as(hex.str, hex.size))]
    /\ UNCHANGED <<main, cast, compressor, zlib, stream, api, other, payload>>

NextHex ==
    \/ HexSerializeAs
    \/ HexDeserializeAs

SpecHex == InitHex /\ [][NextHex]_vars

\* ------------------------------------------------------------------------
\* One integer field on its way through a column: the cast of the encoder's
\* closure, the physical slot of the container, the conversion the row
\* iterator applies for the column's converted type, and the decoder's match.
\* The value starts either as a logical value of the field's type (origin
\* "encode") or as an INT32 already stored in a container written elsewhere
\* (origin "foreign").
\* ------------------------------------------------------------------------
LimbEdges == {0, 1, HalfLimb - 1, HalfLimb, Limb - 1}

\* the values of the integer type a conversion starts from
LogicalValues(conv) ==
    CASE conv = "u8_as_i32" -> 0..(U8Range - 1)
      [] conv = "u16_as_i32" -> 0..(Limb - 1)
      [] conv = "u32_as_i32" -> {<<h, l>> : h \in LimbEdges, l \in LimbEdges}
      [] conv = "u64_as_i64" ->
           {<<a, b, c, d>> : a \in LimbEdges, b \in {0, Limb - 1}, c \in {0, Limb - 1},
                             d \in LimbEdges}
      [] OTHER -> {}

\* INT32 values a container may hold, around the edges of 8, 16 and 32 bits
ForeignI32 ==
    {h * Limb + l : h \in {-HalfLimb, -1, 0, 1, HalfLimb - 1},
                    l \in {0, 1, U8Range - 1, U8Range, Limb - 1}}

IntegerColumns(k) == {i \in 1..Len(EncCols(k)) : LogicalValues(EncCols(k)[i].conv) # {}}

InitCast ==
    /\ kind \in Kinds
    /\ data = <<>>
    /\ batch_size = 1
    /\ compression_level = 0
    /\ pc = "idle"
    /\ rest = <<>>
    /\ chunk = <<>>
    /\ chunks = <<>>
    /\ col = 0
    /\ file = NoFile
    /\ group = <<>>
    /\ column = NoColumn
    /\ open_groups = {}
    /\ open_columns = {}
    /\ rows = <<>>
    /\ deser = <<>>
    /\ pulled = <<>>
    /\ run = 1
    /\ prev = NoPrev
    /\ OthersIdle
    /\ sink = Healthy
    /\ \E i \in IntegerColumns(kind) :
          \/ \E v \in LogicalValues(EncCols(kind)[i].conv) :
                cast = [NoCast EXCEPT !.pc = "logical", !.origin = "encode", !.col = i,
                                      !.logical = v]
          \/ /\ schema(kind).fields[i].physical = "INT32"
             /\ \E w \in ForeignI32 :
                   cast = [NoCast EXCEPT !.pc = "physical", !.origin = "foreign", !.col = i,
                                         !.physical = w]

\* the `.map(|el| el as i32)` closure of the column block
CastEncode ==
    /\ cast.pc = "logical"
    /\ cast' = [cast EXCEPT !.pc = "physical",
                            !.physical = EncValue(EncCols(kind)[cast.col].conv, cast.logical)]
    /\ UNCHANGED <<main, others>>

\* the row iterator yields the stored value as a Field
CastRead ==
    /\ cast.pc = "physical"
    /\ cast' = [cast EXCEPT !.pc = "field",
                            !.fld = convert(schema(kind).fields[cast.col], cast.physical)]
    /\ UNCHANGED <<main, others>>

\* the decoder's match on the Field
CastDecode ==
    /\ cast.pc = "field"
    /\ LET r == DecodeField(DecCols(kind)[cast.col], cast.fld)
       IN IF r.ok
            THEN cast' = [cast EXCEPT !.pc = "decoded", !.out = r.v]
            ELSE cast' = [cast EXCEPT !.pc = "panic"]
    /\ UNCHANGED <<main, others>>

NextCast ==
    \/ CastEncode
    \/ CastRead
    \/ CastDecode

SpecCast == InitCast /\ [][NextCast]_vars

\* ------------------------------------------------------------------------
\* Properties
\* ------------------------------------------------------------------------
\* optional columns of a record type: the fields its decoder may leave None
OptionalFields(k) == {DecCols(k)[i].field : i \in {j \in 1..Len(DecCols(k)) : DecCols(k)[j].nullable}}

RECURSIVE Concat(_)
Concat(seqs) == IF seqs = <<>> THEN <<>> ELSE Head(seqs) \o Concat(Tail(seqs))

CeilDiv(n, b) == (n + b - 1) \div b

\* C1: a batch that is encoded and then decoded is reconstructed exactly:
\* neither call aborts, and when decode_subset returns the records it built
\* are the encoded records, field for field, in the same order and number.
C1_RoundTrip ==
    /\ pc # "panic"
    /\ pc = "done" => deser = data
    /\ pc = "row_iter" => deser = SubSeq(data, 1, Len(deser))

\* three Coins, two with tx_id and the third without, written as two row
\* groups with batch_size 2, decoded to the same three Coins
C1_Witness ==
    /\ pc = "done"
    /\ kind = "CoinConfig"
    /\ batch_size = 2
    /\ Len(data) = 3
    /\ Len(file.groups) = 2
    /\ is_some(data[1].tx_id) /\ is_some(data[2].tx_id) /\ is_none(data[3].tx_id)
    /\ Len(deser) = 3
    /\ is_none(deser[3].tx_id)

\* C2: in every decoded row, each optional field is None exactly when the
\* encoded record of that row had None, and a present value is the value of
\* that same row.
C2_NullHandling ==
    \A i \in 1..Len(deser) :
       /\ i <= Len(data)
       /\ \A f \in OptionalFields(kind) :
             /\ is_none(deser[i][f]) <=> is_none(data[i][f])
             /\ is_some(data[i][f]) => deser[i][f] = data[i][f]

\* a null row decoded before a present row of the same column, and a batch
\* whose optional fields are all None decoded to all None
C2_Witness ==
    /\ pc = "done"
    /\ kind = "ContractConfig"
    /\ Len(deser) = 3
    /\ \A f \in OptionalFields(kind) : is_none(deser[1][f]) /\ is_none(deser[2][f])
    /\ is_some(deser[3].tx_id) /\ is_some(deser[3].tx_pointer_tx_idx)
    /\ is_none(deser[3].output_index)

\* what C3 requires of one written column chunk of a row group of n rows
ChunkWellFormed(sch, c, n) ==
    IF sch.fields[c.idx].repetition = "OPTIONAL"
      THEN /\ is_some(c.given_levels)
           /\ Len(unwrap(c.given_levels)) = n
           /\ \A r \in 1..Len(unwrap(c.given_levels)) : unwrap(c.given_levels)[r] \in {0, 1}
           /\ c.given = CountOnes(unwrap(c.given_levels))
      ELSE /\ is_none(c.given_levels)
           /\ c.given = n

\* C3: for every column written (in a closed row group, in the open one, or
\* just handed to write_batch) an optional column carries one definition level
\* in {0,1} per row of the group and as many values as levels equal to 1; a
\* required column carries no levels and one value per row.
C3_PresenceVector ==
    /\ \A g \in 1..Len(file.groups) : \A i \in 1..Len(file.groups[g]) :
          ChunkWellFormed(file.schema, file.groups[g][i], Len(chunks[g]))
    /\ \A i \in 1..Len(group) : ChunkWellFormed(file.schema, group[i], Len(chunk))
    /\ column.written => ChunkWellFormed(file.schema, column, Len(chunk))

\* a closed row group of three rows whose optional column has both levels
C3_Witness ==
    /\ Len(file.groups) >= 1
    /\ Len(chunks[1]) = 3
    /\ \E i \in 1..Len(file.groups[1]) :
          /\ is_some(file.groups[1][i].given_levels)
          /\ unwrap(file.groups[1][i].given_levels) = <<0, 1, 0>>
          /\ file.groups[1][i].given = 1

\* what C4 requires of the i-th column written for a record type
ColumnMatchesSchema(sch, c, i) ==
    /\ c.idx = i
    /\ c.field = sch.fields[i].name
    /\ c.typed = sch.fields[i].physical
    /\ is_some(c.given_levels) <=> sch.fields[i].repetition = "OPTIONAL"

\* C4: every closed row group has exactly len(schema) columns; the i-th
\* column written projects the field, uses the physical type and has the
\* required/optional status of the i-th schema column; the i-th field a
\* decoder pulls from a row is the i-th schema column and is stored in the
\* record field of that name.
C4_SchemaOrder ==
    /\ pc # "panic"
    /\ \A g \in 1..Len(file.groups) :
          /\ Len(file.groups[g]) = Len(schema(kind).fields)
          /\ \A i \in 1..Len(file.groups[g]) :
                ColumnMatchesSchema(schema(kind), file.groups[g][i], i)
    /\ \A i \in 1..Len(group) : ColumnMatchesSchema(schema(kind), group[i], i)
    /\ column.written => ColumnMatchesSchema(schema(kind), column, Len(group) + 1)
    /\ pulled # <<>> =>
          /\ Len(pulled) = Len(schema(kind).fields)
          /\ \A i \in 1..Len(pulled) :
                /\ pulled[i][1] = schema(kind).fields[i].name
                /\ pulled[i][2] = schema(kind).fields[i].name
                /\ DecCols(kind)[i].nullable <=> schema(kind).fields[i].repetition = "OPTIONAL"

\* a Contract container with a closed row group, one of whose rows was decoded
C4_Witness ==
    /\ kind = "ContractConfig"
    /\ Len(file.groups) = 2
    /\ Len(file.groups[2]) = 7
    /\ Len(pulled) = 7

\* C5: the batch is split into consecutive row groups in input order: the
\* groups written so far followed by the open chunk and the records not yet
\* yielded are the batch; every closed group but the last of the file has
\* batch_size rows and none is empty or larger; once the writer is closed
\* there are ceil(n / b) groups and the last holds n - b * (ceil(n / b) - 1).
C5_Chunking ==
    /\ Len(chunks) = Len(file.groups)
    /\ \A g \in 1..Len(chunks) : Len(chunks[g]) >= 1 /\ Len(chunks[g]) <= batch_size
    /\ \A g \in 1..(Len(chunks) - 1) : Len(chunks[g]) = batch_size
    /\ pc \in {"next_column", "write_batch", "column_close", "group_close"} =>
          /\ Concat(chunks) \o chunk \o rest = data
          /\ \A g \in 1..Len(chunks) : Len(chunks[g]) = batch_size
          /\ Len(chunk) >= 1 /\ Len(chunk) <= batch_size
    /\ pc = "loop" => Concat(chunks) \o rest = data
    /\ file.closed =>
          /\ Len(file.groups) = CeilDiv(Len(data), batch_size)
          /\ Concat(chunks) = data
          /\ Len(chunks) >= 1 =>
                Len(chunks[Len(chunks)]) = Len(data) - batch_size * (CeilDiv(Len(data), batch_size) - 1)
          /\ \A g \in 1..Len(file.groups) : \A i \in 1..Len(file.groups[g]) :
                file.groups[g][i].num_rows = Len(chunks[g])

\* three records with batch_size 2: a full group and a last group of one row
C5_Witness ==
    /\ file.closed
    /\ Len(data) = 3
    /\ batch_size = 2
    /\ Len(chunks) = 2
    /\ Len(chunks[1]) = 2
    /\ Len(chunks[2]) = 1

\* C6: at most one column writer and at most one row group writer is open; a
\* column writer belongs to the open row group and is the one after the
\* columns already closed; when the next column is asked for, the row group
\* is closed or the next row group is asked for, no column writer is open;
\* the writer is closed with no row group open.
C6_WriterDiscipline ==
    /\ pc # "panic"
    /\ Cardinality(open_columns) <= 1
    /\ Cardinality(open_groups) <= 1
    /\ \A oc \in open_columns : oc[1] \in open_groups /\ oc[2] = Len(group) + 1
    /\ \A g \in open_groups : g = Len(file.groups) + 1
    /\ pc \in {"next_column", "group_close", "loop", "reader_new"} => open_columns = {}
    /\ pc \in {"write_batch", "column_close"} => Cardinality(open_columns) = 1
    /\ pc \in {"loop", "reader_new"} => open_groups = {}
    /\ pc \in {"next_column", "write_batch", "column_close", "group_close"} =>
          Cardinality(open_groups) = 1
    /\ file.closed => open_groups = {} /\ open_columns = {}

\* the second column of the second row group is open, the first is closed
C6_Witness ==
    /\ open_groups = {2}
    /\ open_columns = {<<2, 2>>}
    /\ Len(group) = 1
    /\ Len(file.groups) = 1

\* C7: the same batch encoded with another batch_size decodes to the same
\* sequence of records (the number of row groups may differ).
C7_ChunkSizeInvariance ==
    /\ pc # "panic"
    /\ (run = 2 /\ pc = "done") => deser = prev.deser

\* both runs finished, with different numbers of row groups
C7_Witness ==
    /\ run = 2
    /\ pc = "done"
    /\ prev.batch_size # batch_size
    /\ prev.groups # Len(file.groups)
    /\ Len(deser) = 3
    /\ deser = prev.deser

\* the conversion of the column the cast value belongs to
CastConv == EncCols(kind)[cast.col].conv

\* the value a decoder stores for logical value v of the cast column
CastExpected(v) == IF DecCols(kind)[cast.col].nullable THEN Some(v) ELSE v

\* C8: a u8 output_index and a u16 tx_pointer_tx_idx are widened to a
\* non-negative i32 and decode back to the same value, for every value of
\* the type.
C8_WidthNarrowing ==
    (cast.origin = "encode" /\ CastConv \in {"u8_as_i32", "u16_as_i32"}) =>
       /\ cast.pc # "panic"
       /\ cast.pc \in {"physical", "field", "decoded"} => cast.physical >= 0
       /\ cast.pc = "decoded" => cast.out = Some(cast.logical)

\* output_index Some(255) decoded to Some(255)
C8_Witness ==
    /\ cast.pc = "decoded"
    /\ cast.origin = "encode"
    /\ CastConv = "u8_as_i32"
    /\ cast.logical = 255
    /\ cast.physical = 255
    /\ cast.out = Some(255)

\* C9: a u32 (block height, maturity) and a u64 (amount, da_height) stored
\* in the signed slot of the same width decode back to the same value; a
\* value with the top bit set is stored as a negative number (h - 2^32,
\* a - 2^64).
C9_SignedSlot ==
    (cast.origin = "encode" /\ CastConv \in {"u32_as_i32", "u64_as_i64"}) =>
       /\ cast.pc # "panic"
       /\ (cast.pc \in {"physical", "field", "decoded"} /\ CastConv = "u32_as_i32") =>
             IF cast.logical[1] >= HalfLimb
               THEN cast.physical = (cast.logical[1] - Limb) * Limb + cast.logical[2]
               ELSE cast.physical = cast.logical[1] * Limb + cast.logical[2]
       /\ (cast.pc \in {"physical", "field", "decoded"} /\ CastConv = "u64_as_i64") =>
             /\ cast.physical[1] = IF cast.logical[1] >= HalfLimb THEN cast.logical[1] - Limb
                                   ELSE cast.logical[1]
             /\ SubSeq(cast.physical, 2, 4) = SubSeq(cast.logical, 2, 4)
       /\ cast.pc = "decoded" => cast.out = CastExpected(cast.logical)

\* block height 2^32 - 1 stored as -1 and decoded to 2^32 - 1
C9_Witness ==
    /\ cast.pc = "decoded"
    /\ cast.origin = "encode"
    /\ CastConv = "u32_as_i32"
    /\ cast.logical = <<Limb - 1, Limb - 1>>
    /\ cast.physical = -1
    /\ cast.out = Some(<<Limb - 1, Limb - 1>>)

\* the stored INT32 lies outside the range of the column's 8 or 16 bit type
OutOfLogicalRange ==
    \/ CastConv = "u8_as_i32" /\ (cast.physical < 0 \/ cast.physical >= U8Range)
    \/ CastConv = "u16_as_i32" /\ (cast.physical < 0 \/ cast.physical >= Limb)

\* C10: when the stored INT32 of an 8 or 16 bit column lies outside the
\* logical range, decoding aborts and no record field is produced from it.
C10_NoSilentTruncation ==
    (cast.origin = "foreign" /\ cast.pc \in {"decoded", "panic"}
       /\ CastConv \in {"u8_as_i32", "u16_as_i32"} /\ OutOfLogicalRange)
      => cast.pc = "panic"

\* C11: an empty batch is not an error.  For every record type, encoding an
\* empty Vec creates the writer, opens no row group and writes no column,
\* closes the writer normally, and the container decodes to zero rows; no
\* step of the call panics.
C11_EmptyBatch ==
    data = <<>> =>
       /\ pc # "panic"
       /\ open_groups = {} /\ open_columns = {}
       /\ chunks = <<>>
       /\ file.groups = <<>>
       /\ pc \in {"chunks", "loop"} => file.created /\ ~file.closed
       /\ pc \in {"reader_new", "row_iter", "done"} => file.created /\ file.closed
       /\ pc \in {"row_iter", "done"} => rows = <<>> /\ deser = <<>>

\* an empty batch has been encoded and decoded: closed container, no row
\* group, no record
C11_Witness ==
    /\ data = <<>>
    /\ pc = "done"
    /\ file.created /\ file.closed
    /\ file.groups = <<>>
    /\ deser = <<>>

\* a row holds, in some column, a field that is neither of the variant the
\* decoder's match expects nor an accepted Null
RowMismatches(k, row) ==
    \E i \in 1..Len(DecCols(k)) :
       \/ row[i][2].variant = "Null" /\ ~DecCols(k)[i].nullable
       \/ row[i][2].variant \notin {"Null", DecCols(k)[i].variant}

\* the record field a matched Field gives when nothing is substituted
Unsubstituted(dc, fld) ==
    IF fld.variant = "Null" THEN None ELSE IF dc.nullable THEN Some(fld.v) ELSE fld.v

\* C12: a schema/data mismatch is fatal and never coerced.  When a column the
\* decoder asks for is missing from the container, decode_subset aborts before
\* any row; when row r holds a field of an unexpected variant (or a Null in a
\* required column), decode_subset never completes and builds no record for
\* row r or any later row; every record it did build carries the stored
\* values, none replaced by a default.
C12_SchemaMismatchFatal ==
    LET it == get_row_iter(file, schema(kind))
    IN /\ (file.closed /\ is_none(it)) => (pc \in {"reader_new", "panic"} /\ deser = <<>>)
       /\ (file.closed /\ is_some(it)) =>
             LET all == unwrap(it)
             IN /\ Len(deser) <= Len(all)
                /\ \A r \in 1..Len(all) :
                      RowMismatches(kind, all[r]) => (pc # "done" /\ Len(deser) < r)
                /\ \A j \in 1..Len(deser) : \A i \in 1..Len(DecCols(kind)) :
                      deser[j][DecCols(kind)[i].field] =
                         Unsubstituted(DecCols(kind)[i], all[j][i][2])

\* decode_subset panicked at the second or a later row of a container whose
\* column is of another variant, after building the records of the rows before
C12_Witness ==
    /\ pc = "panic"
    /\ file.closed
    /\ file.schema # schema(kind)
    /\ is_some(get_row_iter(file, schema(kind)))
    /\ Len(deser) >= 1
    /\ Len(deser) < Len(unwrap(get_row_iter(file, schema(kind))))
    /\ RowMismatches(kind, unwrap(get_row_iter(file, schema(kind)))[Len(deser) + 1])

\* C13: compression_level selects whether compression is applied.  A writer
\* created by a codec with compression_level = 0 carries no compression codec
\* (UNCOMPRESSED); a writer created with compression_level > 0 carries the
\* compression codec at that level.
C13_CompressionSelected ==
    file.created =>
       IF compression_level = 0
         THEN file.compression[1] = "UNCOMPRESSED"
         ELSE file.compression = <<"GZIP", compression_level>>

\* C14: compression invariance.  Whatever ParquetCodec value decodes them, the
\* container written with compression_level = 0 and the container written
\* for the same batch with a valid non-zero level decode without failure and
\* to the identical sequence of records.
C14_CompressionInvariance ==
    /\ pc # "panic"
    /\ (run = 2 /\ pc = "done" /\ ((prev.compression[2] = 0) # (file.compression[2] = 0)))
          => (deser = prev.deser /\ deser = data)

\* a batch of two row groups written at level 0 and again at the highest
\* level, the second container decoded by a codec value of another level
C14_Witness ==
    /\ run = 2
    /\ pc = "done"
    /\ prev.compression = <<"GZIP", 0>>
    /\ file.compression = <<"GZIP", GzipMaxLevel>>
    /\ compression_level # GzipMaxLevel
    /\ Len(file.groups) >= 2
    /\ deser = data

\* a compressed stream is complete: header, everything written, trailer,
\* nothing left in the encoder
Complete(e, input) ==
    /\ e.header
    /\ e.trailer
    /\ e.pending = <<>>
    /\ e.body = input

\* C15: every normally returning encode path finalizes its output.
\* ParquetCodec::encode_subset has closed the writer when it returns, and the
\* writer is closed only after the last row group (all chunks of the batch,
\* possibly none) is closed; encode_compressed returns with the gzip stream
\* finished, and finishes it only after the encoder closure ran; Data::finish
\* returns with all five zlib streams finished.
C15_Finalization ==
    /\ pc \in {"reader_new", "row_iter", "done"} => file.closed
    /\ file.closed =>
          /\ open_groups = {} /\ open_columns = {}
          /\ rest = <<>>
          /\ Len(file.groups) = CeilDiv(Len(data), batch_size)
    /\ compressor.pc = "returned" => Complete(compressor.e, compressor.entries)
    /\ compressor.e.trailer => compressor.pc = "returned"
    /\ zlib.pc = "returned" =>
          \A f \in DataFields : Complete(zlib.enc[f], zlib.written[f])

\* all three paths returned: a container of two row groups, a gzip stream of
\* two entries, five zlib streams with entries in each
C15_Witness ==
    /\ pc = "done"
    /\ Len(file.groups) = 2
    /\ compressor.pc = "returned"
    /\ Len(compressor.entries) = 2
    /\ zlib.pc = "returned"
    /\ \A f \in DataFields : zlib.written[f] # <<>>

\* C16: an I/O failure of the sink during encode is handed back to the caller
\* as an error result.  Once a write to the sink failed, the call has not
\* panicked (the caller gets the error as a value) and has not gone on as if
\* the write succeeded (no retry, no container reported complete).
C16_IoErrorReturned ==
    sink.error =>
       /\ pc # "panic"
       /\ pc \notin {"reader_new", "row_iter", "done"}
       /\ ~file.closed

\* C17: no decode error is silently swallowed.  For JsonCodec, BsonCodec and
\* BincodeCodec, decode_subset returns normally only when the reader
\* delivered nothing but well-formed records and all of them were decoded: a
\* failing read or an unparsable record never ends the call as if the input
\* had ended.
C17_NoErrorSwallowed ==
    stream.pc = "returned" =>
       /\ \A i \in 1..Len(stream.src) : stream.src[i] = "record"
       /\ stream.decoded = Len(stream.src)

\* the container encode_subset writes for batch d when it runs alone: one row
\* group per batch_size records, the last one shorter
Alone(k, d, b, l) ==
    [created |-> TRUE, schema |-> schema(k), compression |-> <<"GZIP", l>>,
     groups |-> [g \in 1..CeilDiv(Len(d), b) |->
                   RowGroupOf(k, SubSeq(d, (g - 1) * b + 1, Min(g * b, Len(d))),
                              <<"GZIP", l>>)],
     closed |-> TRUE]

\* C19: concurrent calls on the same ParquetCodec value, each with its own
\* buffer and batch, do not interfere.  Under every interleaving neither call
\* panics, each call that returned left in its buffer exactly the container
\* it writes when run alone, and the first call's decode yields its batch.
C19_NoInterference ==
    /\ pc # "panic"
    /\ pc \in {"reader_new", "row_iter", "done"} =>
          file = Alone(kind, data, batch_size, compression_level)
    /\ pc = "done" => deser = data
    /\ other.pc = "returned" =>
          other.file = Alone(kind, other.data, batch_size, compression_level)

\* both calls returned, each with a container of its own for its own batch
\* of two records
C19_Witness ==
    /\ pc = "done"
    /\ other.pc = "returned"
    /\ Len(data) = 2
    /\ other.data # data
    /\ Len(file.groups) >= 2
    /\ other.file # file

\* C20: cursor addressing.  For entries written by InMemorySource::new with
\* batch size b >= 1, a StateReader opened at the cursor of batch i (counted
\* from 1 here) does not fail, and its first read_batch returns exactly the
\* entries (i-1)*b+1 .. min(i*b, n).
C20_CursorAddressing ==
    /\ api.pc # "error"
    /\ (api.pc = "source" /\ api.by = "InMemorySource") =>
          Len(api.element_cursors) = CeilDiv(Len(api.entries), api.batch_size)
    /\ (api.pc = "reader" /\ api.start >= 1 /\ api.batches # <<>>) =>
          api.batches[1] = SubSeq(api.entries, (api.start - 1) * api.batch_size + 1,
                                  Min(api.start * api.batch_size, Len(api.entries)))

\* three entries written in batches of two, the reader opened at the second
\* cursor: its first batch is the third entry alone
C20_Witness ==
    /\ api.pc = "reader"
    /\ Len(api.entries) = 3
    /\ api.batch_size = 2
    /\ api.start = 2
    /\ api.element_cursors[2] > 0
    /\ Len(api.batches) >= 1
    /\ api.batches[1] = <<api.entries[3]>>

\* C21: cursor tracking.  For a StateReader opened at cursor 0 on the data
\* InMemorySource::new wrote, no read_batch fails, the batch_cursor() seen
\* right before the k-th read_batch is batch_cursors()[k], and the k-th
\* read_batch returns the k-th written batch.
C21_CursorTracking ==
    (api.by = "InMemorySource" /\ api.pc \in {"reader", "error"} /\ api.start <= 1) =>
       /\ api.pc # "error"
       /\ \A k \in 1..Len(api.seen) :
             k <= Len(api.element_cursors) =>
                /\ api.seen[k] = api.element_cursors[k]
                /\ api.batches[k] = SubSeq(api.entries, (k - 1) * api.batch_size + 1,
                                          Min(k * api.batch_size, Len(api.entries)))

\* three entries of different sizes written one per batch and read from
\* cursor 0: the third read_batch started at the third cursor
C21_Witness ==
    /\ api.by = "InMemorySource"
    /\ api.pc = "reader"
    /\ api.start = 1
    /\ api.entries = <<Some(1), None, Some(0)>>
    /\ api.batch_size = 1
    /\ Len(api.seen) = 3
    /\ api.seen = <<0, 3, 5>>
    /\ api.seen = api.element_cursors

\* C22: StateWriter/StateReader round trip.  After write_batch(xs) on a fresh
\* StateWriter and into_inner(), a StateReader opened at 0 on the written
\* bytes does not fail and its read_batch returns exactly xs; when
\* InMemorySource::new is given fewer entries than the batch size, the first
\* batch read from 0 holds all of them and the next one is empty.
C22_RoundTrip ==
    /\ (api.by = "StateWriter" /\ api.pc \in {"reader", "error"}) =>
          /\ api.pc # "error"
          /\ api.batches # <<>> => api.batches[1] = api.entries
    /\ (api.by = "InMemorySource" /\ api.pc \in {"reader", "error"}
          /\ Len(api.entries) < api.batch_size) =>
          /\ api.pc # "error"
          /\ api.batches # <<>> => api.batches[1] = api.entries
          /\ Len(api.batches) >= 2 => api.batches[2] = <<>>

\* three entries written by one write_batch and read back from position 0
C22_Witness ==
    /\ api.by = "StateWriter"
    /\ api.pc = "reader"
    /\ api.entries = <<Some(1), None, Some(0)>>
    /\ api.data = <<3, 1, 1, 0, 1, 0>>
    /\ api.reader.pos = Len(api.data)
    /\ api.batches = <<api.entries>>

\* C26: resumability of batch_cursor.  For a StateReader opened at any start
\* cursor and after any number of read_batch calls, batch_cursor() is the
\* absolute byte offset in the source of the next unread batch, so a reader
\* opened there would read the same next batch.
C26_Resumable ==
    api.pc = "reader" =>
       /\ batch_cursor(api.reader) = api.reader.pos
       /\ decode_from_std_read(api.data, batch_cursor(api.reader)) =
             decode_from_std_read(api.data, api.reader.pos)

\* C27: end of data.  A read_batch that starts where the written data ends
\* does not fail and returns the empty vector, and it leaves batch_cursor()
\* as it was, so every further read_batch does the same.
C27_EndOfData ==
    LET opened == api.reader.pos - api.reader.amount_read
    IN /\ api.pc = "error" => api.reader.pos < Len(api.data)
       /\ api.pc = "reader" =>
             \A k \in 1..Len(api.batches) :
                opened + api.seen[k] = Len(api.data) =>
                   /\ api.batches[k] = <<>>
                   /\ k < Len(api.seen) => api.seen[k + 1] = api.seen[k]
                   /\ k = Len(api.seen) => batch_cursor(api.reader) = api.seen[k]

\* two batches read from cursor 0, then two more read_batch calls at the end
C27_Witness ==
    /\ api.pc = "reader"
    /\ api.by = "InMemorySource"
    /\ Len(api.element_cursors) = 2
    /\ api.start = 1
    /\ Len(api.batches) = 4
    /\ api.batches[2] # <<>>
    /\ api.batches[3] = <<>>
    /\ api.batches[4] = <<>>
    /\ api.seen[3] = Len(api.data)
    /\ api.seen[4] = Len(api.data)

\* C30: InMemorySource::new(entries, b) with n entries and b >= 1 records
\* exactly ceil(n/b) cursors; the first is 0, they increase strictly, and
\* cursor i is the number of bytes the TrackingWriter accepted for the
\* batches before batch i, every batch having left the BufWriter before the
\* next cursor is sampled.
C30_BatchCursors ==
    LET n == Len(api.entries)
        b == api.batch_size
        cs == api.element_cursors
        batch(j) == SubSeq(api.entries, (j - 1) * b + 1, Min(j * b, n))
        size[j \in 0..Len(cs)] ==
            IF j = 0 THEN 0 ELSE size[j - 1] + Len(encode_into_std_write(batch(j)))
    IN api.by = "InMemorySource" =>
          /\ api.pc = "new" => (api.writer.dest = <<>> /\ api.writer.written_bytes = size[Len(cs)])
          /\ api.pc \in {"source", "reader"} =>
                /\ Len(cs) = CeilDiv(n, b)
                /\ Len(api.data) = size[Len(cs)]
          /\ cs # <<>> => cs[1] = 0
          /\ \A i \in 1..Len(cs) :
                /\ cs[i] = size[i - 1]
                /\ i < Len(cs) => cs[i] < cs[i + 1]

\* three entries in batches of two: the second cursor is the size of the
\* first batch, a length byte and the bytes of two entries
C30_Witness ==
    /\ api.by = "InMemorySource"
    /\ api.pc = "source"
    /\ api.entries = <<None, Some(1), Some(0)>>
    /\ api.batch_size = 2
    /\ api.element_cursors = <<0, 4>>
    /\ Len(api.data) = 7

\* C23: batch_size = 0 is rejected.  encode_subset on a codec with batch_size
\* 0 never returns normally and never closes the container, whatever the
\* batch, the empty one included, and no row group is ever opened.
C23_ZeroBatchSize ==
    batch_size = 0 =>
       /\ pc \in {"get_writer", "chunks", "panic"}
       /\ ~file.closed
       /\ file.groups = <<>>
       /\ open_groups = {}
       /\ group = <<>>
       /\ chunks = <<>>

\* the call panicked at chunks(0) on an empty batch, the writer created
C23_Witness ==
    /\ batch_size = 0
    /\ data = <<>>
    /\ GzipLevelTryNew(compression_level)
    /\ pc = "panic"
    /\ file.created
    /\ ~file.closed

\* C24: a compression_level above the gzip maximum makes encode_subset abort
\* in get_writer before the container writer exists: nothing is written to
\* the sink, no row group is opened and the call does not return normally.
C24_LevelOutOfRange ==
    compression_level > GzipMaxLevel =>
       /\ pc \in {"get_writer", "panic"}
       /\ ~file.created
       /\ sink \in {Healthy, [left |-> MaxSinkWrites, error |-> FALSE]}
       /\ file.groups = <<>>
       /\ open_groups = {}

\* the call panicked with a level above the maximum, a non-empty batch and a
\* sink that counted no write
C24_Witness ==
    /\ compression_level = GzipMaxLevel + 1
    /\ pc = "panic"
    /\ Len(data) = MaxParLen
    /\ batch_size > 0
    /\ sink = [left |-> MaxSinkWrites, error |-> FALSE]
    /\ file = NoFile

\* C25: ContractConfig::write writes, for every ContractConfig, those with
\* None in an optional field included, exactly one row to each of the seven
\* columns, an absent optional field as one definition level 0, so that the
\* row counts agree and the row group closes.
C25_OneRowPerColumn ==
    LET one(c) ==
           /\ c.num_rows = 1
           /\ EncCols(kind)[c.idx].def =>
                 c.def_levels = Some(<<IF is_some(chunk[1][c.field]) THEN 1 ELSE 0>>)
    IN pc \in {"write", "write_column", "write_group_close", "written", "panic"} =>
          /\ pc # "panic"
          /\ \A i \in 1..Len(group) : one(group[i])
          /\ pc = "written" => Len(file.groups) = Len(data)

\* C28: PayloadCodec::encode encodes the five subsets in the order coins,
\* messages, contracts, contract_state, contract_balance, each once and only
\* into its own writer, the other writers staying as they are;
\* PayloadCodec::decode decodes the five readers in the same order, each once
\* and with the record type encode used for that slot.
C28_PayloadOrder ==
    LET order == <<"coins", "messages", "contracts", "contract_state", "contract_balance">>
        types == <<"CoinConfig", "MessageConfig", "ContractConfig", "ContractState",
                   "ContractBalance">>
        left(j) == <<[type |-> types[j], len |-> payload.subsets[order[j]]]>>
    IN payload.pc # "none" =>
          /\ Len(payload.encoded) <= 5
          /\ Len(payload.decoded) <= 5
          /\ payload.pc \in {"decode", "done"} => Len(payload.encoded) = 5
          /\ payload.pc = "done" => Len(payload.decoded) = 5
          /\ \A k \in 1..Len(payload.encoded) :
                payload.encoded[k] = [type |-> types[k], field |-> order[k], writer |-> order[k]]
          /\ \A j \in 1..5 :
                payload.writers[order[j]] = IF j <= Len(payload.encoded) THEN left(j) ELSE <<>>
          /\ \A k \in 1..Len(payload.decoded) :
                payload.decoded[k] = [type |-> types[k], reader |-> order[k], found |-> left(k)]

\* a payload with subsets of different lengths, an empty one among them,
\* encoded and decoded to the end
C28_Witness ==
    /\ payload.pc = "done"
    /\ payload.subsets["coins"] = 1
    /\ payload.subsets["messages"] = 2
    /\ payload.subsets["contracts"] = 0
    /\ payload.decoded[2].type = "MessageConfig"
    /\ payload.decoded[3].found = <<[type |-> "ContractConfig", len |-> 0]>>

====
